---------------------------- MODULE Spec2Model ----------------------------
(***************************************************************************)
(* GuardianCGM drift monitor (05_Drift_Monitoring_Strategy.py).            *)
(*                                                                         *)
(* DriftMonitor.check_drift runs one monitoring cycle over a batch:        *)
(* data quality, statistical drift, performance (RMSE and the Clarke       *)
(* error grid), bias drift, the retraining decision, then it appends the   *)
(* cycle's alerts to alert_history, renders the summary and logs.          *)
(*                                                                         *)
(* Numbers.  Python floats are modelled exactly:                           *)
(*   - a glucose reading is a record [nan, v], v in whole mg/dL;           *)
(*   - a ratio is a rational [num, den] with den >= 0, and den = 0 is the  *)
(*     NaN that numpy/pandas give for 0/0 and for the mean of nothing;     *)
(*   - a reported value is [hi, lo, root]: the real number hi - lo, or     *)
(*     sqrt(hi) - sqrt(lo) when root (an RMSE is sqrt(MSE) - sqrt(0), a    *)
(*     subgroup disparity is sqrt(max MSE) - sqrt(min MSE)).               *)
(* Comparisons against thresholds are decided exactly by cross             *)
(* multiplication and squaring, with every comparison on a NaN false.      *)
(***************************************************************************)
EXTENDS Integers, Sequences, FiniteSets, TLC

VARIABLES
    call,               \* a direct call of one method: [fn, arg..., ret]
    pc,                 \* where check_drift stands
    data,               \* the batch of the running check_drift call
    demographic_cols,   \* its demographic_cols argument
    report,             \* the report dict being built / last returned
    alert_history,      \* self.alert_history
    now,                \* the clock datetime.now() reads (one tick a cycle)
    outcome             \* how the last check_drift ended: "returned", or the
                        \* exception it raised

vars == <<call, pc, data, demographic_cols, report, alert_history, now, outcome>>

(***************************************************************************)
(* MonitoringThresholds                                                    *)
(***************************************************************************)
rmse_warning == 7
rmse_critical == 9
clarke_ab_min == 95
subgroup_rmse_disparity_max == 2
ks_test_alpha == [num |-> 1, den |-> 100]
psi_warning == [num |-> 10, den |-> 100]
psi_critical == [num |-> 25, den |-> 100]
missing_rate_max == [num |-> 5, den |-> 100]
outlier_rate_max == [num |-> 2, den |-> 100]

\* self.feature_cols
feature_cols ==
    <<"glucose_raw", "glucose_smooth", "velocity", "acceleration",
      "volatility_1h", "lag_15m", "lag_30m", "lag_60m">>

FeatureSet == {feature_cols[i] : i \in DOMAIN feature_cols}
\* data[self.feature_cols] succeeds: every feature column is in the batch
HasFeatures(d) == FeatureSet \subseteq d.columns

(***************************************************************************)
(* Exact arithmetic                                                        *)
(***************************************************************************)
Abs(x) == IF x < 0 THEN 0 - x ELSE x

Rat(n, d) == [num |-> n, den |-> d]
R(n) == Rat(n, 1)
RatNaN == Rat(0, 0)
RSub(a, b) == Rat(a.num * b.den - b.num * a.den, a.den * b.den)
RMul(a, b) == Rat(a.num * b.num, a.den * b.den)
RGT(a, b) == a.num * b.den > b.num * a.den
RGE(a, b) == a.num * b.den >= b.num * a.den

Plain(r) == [hi |-> r, lo |-> R(0), root |-> FALSE]
Root(r) == [hi |-> r, lo |-> R(0), root |-> TRUE]
RootDiff(a, b) == [hi |-> a, lo |-> b, root |-> TRUE]
ValNaN(v) == v.hi.den = 0 \/ v.lo.den = 0

\* v > t and v >= t for a threshold t >= 0 (a rational); false on NaN.
\* sqrt(hi) - sqrt(lo) > t  <=>  X > 2 t sqrt(lo)  with X = hi - lo - t^2
\*                          <=>  X > 0 /\ X^2 > 4 t^2 lo.
ValGT(v, t) ==
    /\ ~ValNaN(v)
    /\ IF ~v.root THEN RGT(RSub(v.hi, v.lo), t)
       ELSE IF v.lo.num = 0 THEN RGT(v.hi, RMul(t, t))
       ELSE LET X == RSub(RSub(v.hi, v.lo), RMul(t, t))
            IN  /\ RGT(X, R(0))
                /\ RGT(RMul(X, X), RMul(R(4), RMul(RMul(t, t), v.lo)))

ValGE(v, t) ==
    /\ ~ValNaN(v)
    /\ IF ~v.root THEN RGE(RSub(v.hi, v.lo), t)
       ELSE IF v.lo.num = 0 THEN RGE(v.hi, RMul(t, t))
       ELSE LET X == RSub(RSub(v.hi, v.lo), RMul(t, t))
            IN  /\ RGE(X, R(0))
                /\ RGE(RMul(X, X), RMul(R(4), RMul(RMul(t, t), v.lo)))

ValLT(v, t) == ~ValNaN(v) /\ ~ValGE(v, t)
ValLE(v, t) == ~ValNaN(v) /\ ~ValGT(v, t)

\* A float reading; every comparison with a NaN operand is false.
Num(x) == [nan |-> FALSE, v |-> x]
NaN == [nan |-> TRUE, v |-> 0]
LE(x, y) == ~x.nan /\ ~y.nan /\ x.v <= y.v
LT(x, y) == ~x.nan /\ ~y.nan /\ x.v < y.v
GE(x, y) == ~x.nan /\ ~y.nan /\ x.v >= y.v
GT(x, y) == ~x.nan /\ ~y.nan /\ x.v > y.v

(***************************************************************************)
(* DriftAlert                                                              *)
(***************************************************************************)
DriftAlert(ts, sev, cat, met, val, thr, meta) ==
    [timestamp |-> ts, severity |-> sev, category |-> cat,
     metric |-> met, value |-> val, threshold |-> thr, metadata |-> meta]

(***************************************************************************)
(* Clarke error grid                                                       *)
(***************************************************************************)
\* abs(pred_glucose - true_glucose) <= 0.2 * true_glucose
WithinTwentyPct(true_glucose, pred_glucose) ==
    /\ ~true_glucose.nan /\ ~pred_glucose.nan
    /\ 5 * Abs(pred_glucose.v - true_glucose.v) <= true_glucose.v

\* faulty variant: Zone C is tested before Zones E and D
_clarke_zone_CBeforeE(true_glucose, pred_glucose) ==
    IF LE(true_glucose, Num(70)) /\ LE(pred_glucose, Num(70)) THEN "A"
    ELSE IF WithinTwentyPct(true_glucose, pred_glucose) THEN "A"
    ELSE IF /\ LE(Num(70), true_glucose) /\ LE(true_glucose, Num(290))
            /\ LE(pred_glucose, Num(70)) THEN "C"
    ELSE IF /\ LE(Num(70), true_glucose) /\ LE(true_glucose, Num(180))
            /\ GE(pred_glucose, Num(240)) THEN "C"
    ELSE IF \/ LE(true_glucose, Num(70)) /\ GE(pred_glucose, Num(180))
            \/ GE(true_glucose, Num(180)) /\ LE(pred_glucose, Num(70)) THEN "E"
    ELSE IF \/ LT(true_glucose, Num(70)) /\ GT(pred_glucose, Num(180))
            \/ GT(true_glucose, Num(240)) /\ LT(pred_glucose, Num(70)) THEN "D"
    ELSE "B"

\* faulty variant: Zone D is tested before Zone E
_clarke_zone_DBeforeE(true_glucose, pred_glucose) ==
    IF LE(true_glucose, Num(70)) /\ LE(pred_glucose, Num(70)) THEN "A"
    ELSE IF WithinTwentyPct(true_glucose, pred_glucose) THEN "A"
    ELSE IF \/ LT(true_glucose, Num(70)) /\ GT(pred_glucose, Num(180))
            \/ GT(true_glucose, Num(240)) /\ LT(pred_glucose, Num(70)) THEN "D"
    ELSE IF \/ LE(true_glucose, Num(70)) /\ GE(pred_glucose, Num(180))
            \/ GE(true_glucose, Num(180)) /\ LE(pred_glucose, Num(70)) THEN "E"
    ELSE IF /\ LE(Num(70), true_glucose) /\ LE(true_glucose, Num(290))
            /\ LE(pred_glucose, Num(70)) THEN "C"
    ELSE IF /\ LE(Num(70), true_glucose) /\ LE(true_glucose, Num(180))
            /\ GE(pred_glucose, Num(240)) THEN "C"
    ELSE "B"

\* faulty variant: a pair with a missing value is an erroneous-treatment error
_clarke_zone_MissingIsE(true_glucose, pred_glucose) ==
    IF true_glucose.nan \/ pred_glucose.nan THEN "E"
    ELSE IF LE(true_glucose, Num(70)) /\ LE(pred_glucose, Num(70)) THEN "A"
    ELSE IF WithinTwentyPct(true_glucose, pred_glucose) THEN "A"
    ELSE IF \/ LE(true_glucose, Num(70)) /\ GE(pred_glucose, Num(180))
            \/ GE(true_glucose, Num(180)) /\ LE(pred_glucose, Num(70)) THEN "E"
    ELSE IF \/ LT(true_glucose, Num(70)) /\ GT(pred_glucose, Num(180))
            \/ GT(true_glucose, Num(240)) /\ LT(pred_glucose, Num(70)) THEN "D"
    ELSE IF /\ LE(Num(70), true_glucose) /\ LE(true_glucose, Num(290))
            /\ LE(pred_glucose, Num(70)) THEN "C"
    ELSE IF /\ LE(Num(70), true_glucose) /\ LE(true_glucose, Num(180))
            /\ GE(pred_glucose, Num(240)) THEN "C"
    ELSE "B"

_clarke_zone(true_glucose, pred_glucose) ==
    IF LE(true_glucose, Num(70)) /\ LE(pred_glucose, Num(70)) THEN "A"
    ELSE IF WithinTwentyPct(true_glucose, pred_glucose) THEN "A"
    ELSE IF \/ LE(true_glucose, Num(70)) /\ GE(pred_glucose, Num(180))
            \/ GE(true_glucose, Num(180)) /\ LE(pred_glucose, Num(70)) THEN "E"
    ELSE IF \/ LT(true_glucose, Num(70)) /\ GT(pred_glucose, Num(180))
            \/ GT(true_glucose, Num(240)) /\ LT(pred_glucose, Num(70)) THEN "D"
    ELSE IF /\ LE(Num(70), true_glucose) /\ LE(true_glucose, Num(290))
            /\ LE(pred_glucose, Num(70)) THEN "C"
    ELSE IF /\ LE(Num(70), true_glucose) /\ LE(true_glucose, Num(180))
            /\ GE(pred_glucose, Num(240)) THEN "C"
    ELSE "B"

Zones == {"A", "B", "C", "D", "E"}

Min(a, b) == IF a < b THEN a ELSE b

\* faulty variant: rows with a missing value are left out of the tally
RECURSIVE ZoneTally_DropsNaN(_, _, _, _)
ZoneTally_DropsNaN(y_true, y_pred, i, zones) ==
    IF i > Min(Len(y_true), Len(y_pred)) THEN zones
    ELSE IF y_true[i].nan \/ y_pred[i].nan
    THEN ZoneTally_DropsNaN(y_true, y_pred, i + 1, zones)
    ELSE LET zone == _clarke_zone(y_true[i], y_pred[i])
         IN  ZoneTally_DropsNaN(y_true, y_pred, i + 1,
                                [zones EXCEPT ![zone] = zones[zone] + 1])

\* the loop of _calculate_clarke_metrics over zip(y_true, y_pred)
RECURSIVE ZoneTally(_, _, _, _)
ZoneTally(y_true, y_pred, i, zones) ==
    IF i > Min(Len(y_true), Len(y_pred)) THEN zones
    ELSE LET zone == _clarke_zone(y_true[i], y_pred[i])
         IN  ZoneTally(y_true, y_pred, i + 1,
                       [zones EXCEPT ![zone] = zones[zone] + 1])

\* n_total = 0 makes zones['A'] / n_total raise ZeroDivisionError.
_calculate_clarke_metrics(y_true, y_pred) ==
    LET zones == ZoneTally(y_true, y_pred, 1, [z \in Zones |-> 0])
        n_total == Len(y_true)
    IN  [raised |-> n_total = 0,
         zone_a_pct |-> Rat(zones["A"] * 100, n_total),
         zone_b_pct |-> Rat(zones["B"] * 100, n_total),
         zone_c_pct |-> Rat(zones["C"] * 100, n_total),
         zone_d_pct |-> Rat(zones["D"] * 100, n_total),
         zone_e_pct |-> Rat(zones["E"] * 100, n_total),
         zone_counts |-> zones]


(***************************************************************************)
(* Performance monitoring                                                  *)
(***************************************************************************)
RAdd(a, b) == Rat(a.num * b.den + b.num * a.den, a.den * b.den)

\* rows whose error y_pred - y_true is a number: np.mean of a pandas Series
\* skips NaN
Valid(y_true, y_pred) ==
    {i \in 1..Min(Len(y_true), Len(y_pred)) : ~y_true[i].nan /\ ~y_pred[i].nan}

RECURSIVE SumOver(_, _, _)
SumOver(y_true, y_pred, idx) ==
    IF idx = {} THEN [sq |-> 0, ab |-> 0]
    ELSE LET i == CHOOSE j \in idx : TRUE
             e == y_pred[i].v - y_true[i].v
             rest == SumOver(y_true, y_pred, idx \ {i})
         IN  [sq |-> rest.sq + e * e, ab |-> rest.ab + Abs(e)]

\* np.mean((y_pred - y_true) ** 2); its square root is the RMSE
MeanSquaredError(y_true, y_pred) ==
    LET idx == Valid(y_true, y_pred)
    IN  Rat(SumOver(y_true, y_pred, idx).sq, Cardinality(idx))

\* np.mean(np.abs(y_pred - y_true))
MeanAbsoluteError(y_true, y_pred) ==
    LET idx == Valid(y_true, y_pred)
    IN  Rat(SumOver(y_true, y_pred, idx).ab, Cardinality(idx))

EmptyDict == [k \in {} |-> 0]

\* faulty variant: the thresholds are inclusive (>=)
RmseAlerts_Inclusive(rmse, mae, ts) ==
    IF ValGE(rmse, R(rmse_critical))
    THEN <<DriftAlert(ts, "CRITICAL", "PERFORMANCE", "rmse", rmse, R(rmse_critical),
                      [mae |-> mae])>>
    ELSE IF ValGE(rmse, R(rmse_warning))
    THEN <<DriftAlert(ts, "WARNING", "PERFORMANCE", "rmse", rmse, R(rmse_warning),
                      [mae |-> mae])>>
    ELSE <<>>

\* faulty variant: the warning test is a second if, not an elif
RmseAlerts_NoShortCircuit(rmse, mae, ts) ==
    (IF ValGT(rmse, R(rmse_critical))
     THEN <<DriftAlert(ts, "CRITICAL", "PERFORMANCE", "rmse", rmse, R(rmse_critical),
                       [mae |-> mae])>>
     ELSE <<>>)
    \o (IF ValGT(rmse, R(rmse_warning))
        THEN <<DriftAlert(ts, "WARNING", "PERFORMANCE", "rmse", rmse, R(rmse_warning),
                          [mae |-> mae])>>
        ELSE <<>>)

RmseAlerts(rmse, mae, ts) ==
    IF ValGT(rmse, R(rmse_critical))
    THEN <<DriftAlert(ts, "CRITICAL", "PERFORMANCE", "rmse", rmse, R(rmse_critical),
                      [mae |-> mae])>>
    ELSE IF ValGT(rmse, R(rmse_warning))
    THEN <<DriftAlert(ts, "WARNING", "PERFORMANCE", "rmse", rmse, R(rmse_warning),
                      [mae |-> mae])>>
    ELSE <<>>

\* faulty variant: the comparison with clarke_ab_min is the wrong way round
ClarkeAlerts_Inverted(zone_ab_pct, clarke_metrics, ts) ==
    IF ValGT(Plain(zone_ab_pct), R(clarke_ab_min))
    THEN <<DriftAlert(ts, "CRITICAL", "PERFORMANCE", "clarke_ab_percentage",
                      Plain(zone_ab_pct), R(clarke_ab_min), clarke_metrics)>>
    ELSE <<>>

ClarkeAlerts(zone_ab_pct, clarke_metrics, ts) ==
    IF ValLT(Plain(zone_ab_pct), R(clarke_ab_min))
    THEN <<DriftAlert(ts, "CRITICAL", "PERFORMANCE", "clarke_ab_percentage",
                      Plain(zone_ab_pct), R(clarke_ab_min), clarke_metrics)>>
    ELSE <<>>

PerfResult(raised, exception, predicted, metrics, alerts) ==
    [raised |-> raised, exception |-> exception, predicted |-> predicted,
     metrics |-> metrics, alerts |-> alerts]

\* Returns [raised, exception, predicted, metrics, alerts]: raised when
\* data[feature_cols] (KeyError), model.predict or the Clarke division
\* fails; predicted tells whether model.predict was called.
_check_performance(d, ts) ==
    IF ~d.has_target
    THEN PerfResult(FALSE, "", FALSE, EmptyDict, <<>>)
    ELSE IF ~HasFeatures(d)
    THEN PerfResult(TRUE, "KeyError", FALSE, EmptyDict, <<>>)
    ELSE IF d.predict_raises
    THEN PerfResult(TRUE, "PredictError", TRUE, EmptyDict, <<>>)
    ELSE
    LET y_true == d.y_true
        y_pred == d.y_pred
        rmse == Root(MeanSquaredError(y_true, y_pred))
        mae == Plain(MeanAbsoluteError(y_true, y_pred))
        clarke_metrics == _calculate_clarke_metrics(y_true, y_pred)
        zone_ab_pct == RAdd(clarke_metrics.zone_a_pct, clarke_metrics.zone_b_pct)
    IN  IF clarke_metrics.raised
        THEN PerfResult(TRUE, "ZeroDivisionError", TRUE, EmptyDict, <<>>)
        ELSE PerfResult(FALSE, "", TRUE,
                        [rmse |-> rmse, mae |-> mae, n_predictions |-> Len(y_pred),
                         clarke |-> clarke_metrics],
                        RmseAlerts(rmse, mae, ts)
                            \o ClarkeAlerts(zone_ab_pct, clarke_metrics, ts))

(***************************************************************************)
(* Retraining decision                                                     *)
(***************************************************************************)
SeverityCount(alerts, sev) ==
    Cardinality({i \in DOMAIN alerts : alerts[i].severity = sev})

\* faulty variant: the loop tests only the Clarke trigger
RECURSIVE ImmediateTrigger_ClarkeOnly(_, _)
ImmediateTrigger_ClarkeOnly(alerts, i) ==
    IF i > Len(alerts) THEN FALSE
    ELSE IF /\ alerts[i].metric = "clarke_ab_percentage"
            /\ ValLT(alerts[i].value, R(clarke_ab_min)) THEN TRUE
    ELSE ImmediateTrigger_ClarkeOnly(alerts, i + 1)

\* faulty variant: the Clarke trigger tests the severity, not the value
RECURSIVE ImmediateTrigger_ClarkeBySeverity(_, _)
ImmediateTrigger_ClarkeBySeverity(alerts, i) ==
    IF i > Len(alerts) THEN FALSE
    ELSE IF alerts[i].metric = "rmse" /\ alerts[i].severity = "CRITICAL" THEN TRUE
    ELSE IF /\ alerts[i].metric = "clarke_ab_percentage"
            /\ alerts[i].severity = "CRITICAL" THEN TRUE
    ELSE ImmediateTrigger_ClarkeBySeverity(alerts, i + 1)

\* faulty variant: the loop ends after the alert it starts on
ImmediateTrigger_FirstOnly(alerts, i) ==
    IF i > Len(alerts) THEN FALSE
    ELSE IF alerts[i].metric = "rmse" /\ alerts[i].severity = "CRITICAL" THEN TRUE
    ELSE IF /\ alerts[i].metric = "clarke_ab_percentage"
            /\ ValLT(alerts[i].value, R(clarke_ab_min)) THEN TRUE
    ELSE FALSE

\* the "immediate retraining triggers" loop, from alert i on
RECURSIVE ImmediateTrigger(_, _)
ImmediateTrigger(alerts, i) ==
    IF i > Len(alerts) THEN FALSE
    ELSE IF alerts[i].metric = "rmse" /\ alerts[i].severity = "CRITICAL" THEN TRUE
    ELSE IF /\ alerts[i].metric = "clarke_ab_percentage"
            /\ ValLT(alerts[i].value, R(clarke_ab_min)) THEN TRUE
    ELSE ImmediateTrigger(alerts, i + 1)

\* faulty variant: two CRITICAL alerts are enough
_evaluate_retraining_need_TwoCritical(alerts) ==
    LET critical_count == SeverityCount(alerts, "CRITICAL")
        warning_count == SeverityCount(alerts, "WARNING")
    IN  IF ImmediateTrigger(alerts, 1) THEN TRUE
        ELSE IF critical_count >= 2 THEN TRUE
        ELSE IF warning_count >= 5 THEN TRUE
        ELSE FALSE

\* faulty variant: it takes more than five WARNING alerts
_evaluate_retraining_need_SixWarnings(alerts) ==
    LET critical_count == SeverityCount(alerts, "CRITICAL")
        warning_count == SeverityCount(alerts, "WARNING")
    IN  IF ImmediateTrigger(alerts, 1) THEN TRUE
        ELSE IF critical_count >= 3 THEN TRUE
        ELSE IF warning_count > 5 THEN TRUE
        ELSE FALSE

\* faulty variant: the verdict needs exactly three CRITICAL alerts, or
\* exactly five WARNING alerts
_evaluate_retraining_need_ExactCounts(alerts) ==
    LET critical_count == SeverityCount(alerts, "CRITICAL")
        warning_count == SeverityCount(alerts, "WARNING")
    IN  IF ImmediateTrigger(alerts, 1) THEN TRUE
        ELSE IF critical_count = 3 THEN TRUE
        ELSE IF warning_count = 5 THEN TRUE
        ELSE FALSE

_evaluate_retraining_need(alerts) ==
    LET critical_count == SeverityCount(alerts, "CRITICAL")
        warning_count == SeverityCount(alerts, "WARNING")
    IN  IF ImmediateTrigger(alerts, 1) THEN TRUE
        ELSE IF critical_count >= 3 THEN TRUE
        ELSE IF warning_count >= 5 THEN TRUE
        ELSE FALSE


(***************************************************************************)
(* The batch.  A DataFrame is modelled by what the monitor reads of it:    *)
(*   columns        the columns of feature_cols that are present           *)
(*   has_target     the column target_30min is present                     *)
(*   n              len(data)                                              *)
(*   nonnull[f]     non-null cells of feature f                            *)
(*   glucose_raw    the glucose_raw column; glucose_numeric when its dtype *)
(*                  is numeric (not object, as with text readings)         *)
(*   outlier_cells, z_size   cells with |z-score| > 4, and cells scored    *)
(*   ks[f], psi[f]  what stats.ks_2samp ([stat, pval]) and _calculate_psi  *)
(*                  give for feature f against the reference data          *)
(*   y_true         the target_30min column                                *)
(*   y_pred         what self.model.predict returns; predict_raises when   *)
(*                  it raises instead                                      *)
(*   demo_columns   the demographic columns present                        *)
(*   groups[c]      the column c: each row's subgroup code                 *)
(***************************************************************************)

(***************************************************************************)
(* Data quality                                                            *)
(***************************************************************************)
RECURSIVE NullCells(_, _)
NullCells(d, fs) ==
    IF fs = {} THEN 0
    ELSE LET f == CHOOSE g \in fs : TRUE
         IN  (d.n - d.nonnull[f]) + NullCells(d, fs \ {f})

\* faulty variant: a rate equal to the limit is reported
MissingAlerts_Inclusive(d, ts) ==
    LET missing_rate == Plain(Rat(NullCells(d, FeatureSet), d.n * Len(feature_cols)))
    IN  IF ValGE(missing_rate, missing_rate_max)
        THEN <<DriftAlert(ts, "WARNING", "DATA_QUALITY", "missing_rate",
                          missing_rate, missing_rate_max,
                          [affected_features |->
                               [f \in FeatureSet |-> d.n - d.nonnull[f]]])>>
        ELSE <<>>

MissingAlerts(d, ts) ==
    LET missing_rate == Plain(Rat(NullCells(d, FeatureSet), d.n * Len(feature_cols)))
    IN  IF ValGT(missing_rate, missing_rate_max)
        THEN <<DriftAlert(ts, "WARNING", "DATA_QUALITY", "missing_rate",
                          missing_rate, missing_rate_max,
                          [affected_features |->
                               [f \in FeatureSet |-> d.n - d.nonnull[f]]])>>
        ELSE <<>>

OutlierAlerts(d, ts) ==
    LET outlier_rate == Plain(Rat(d.outlier_cells, d.z_size))
    IN  IF ValGT(outlier_rate, outlier_rate_max)
        THEN <<DriftAlert(ts, "WARNING", "DATA_QUALITY", "outlier_rate",
                          outlier_rate, outlier_rate_max,
                          [outlier_count |-> d.outlier_cells])>>
        ELSE <<>>

\* faulty variant: readings of exactly 40 and 400 count as out of range
RangeAlerts_Inclusive(d, ts) ==
    LET g == d.glucose_raw
        out_of_range == Cardinality({i \in DOMAIN g :
                                       LE(g[i], Num(40)) \/ GE(g[i], Num(400))})
    IN  IF out_of_range > 0
        THEN <<DriftAlert(ts, "CRITICAL", "DATA_QUALITY", "sensor_range_violations",
                          Plain(R(out_of_range)), R(0),
                          [out_of_range_count |-> out_of_range])>>
        ELSE <<>>

RangeAlerts(d, ts) ==
    LET g == d.glucose_raw
        out_of_range == Cardinality({i \in DOMAIN g :
                                       LT(g[i], Num(40)) \/ GT(g[i], Num(400))})
    IN  IF out_of_range > 0
        THEN <<DriftAlert(ts, "CRITICAL", "DATA_QUALITY", "sensor_range_violations",
                          Plain(R(out_of_range)), R(0),
                          [out_of_range_count |-> out_of_range])>>
        ELSE <<>>

\* data[self.feature_cols] raises KeyError when a feature column is absent;
\* data['glucose_raw'] < 40 raises TypeError on a column of object dtype
\* (no '<' between str and int)
_check_data_quality(d, ts) ==
    IF ~HasFeatures(d)
    THEN [raised |-> TRUE, exception |-> "KeyError", alerts |-> <<>>]
    ELSE IF ~d.glucose_numeric
    THEN [raised |-> TRUE, exception |-> "TypeError", alerts |-> <<>>]
    ELSE [raised |-> FALSE, exception |-> "",
          alerts |-> MissingAlerts(d, ts) \o OutlierAlerts(d, ts) \o RangeAlerts(d, ts)]

(***************************************************************************)
(* Statistical drift                                                       *)
(***************************************************************************)
\* faulty variant: a p-value equal to ks_test_alpha is reported, and one equal
\* to 0.001 is CRITICAL
KsAlerts_Inclusive(d, feature, ts) ==
    LET ks_stat == d.ks[feature].stat
        ks_pval == d.ks[feature].pval
    IN  IF ValLE(Plain(ks_pval), ks_test_alpha)
        THEN <<DriftAlert(ts,
                          IF ValLE(Plain(ks_pval), Rat(1, 1000)) THEN "CRITICAL"
                                                                 ELSE "WARNING",
                          "STATISTICAL_DRIFT", "ks_test_" \o feature,
                          Plain(ks_stat), ks_test_alpha,
                          [ks_statistic |-> ks_stat, p_value |-> ks_pval])>>
        ELSE <<>>

KsAlerts(d, feature, ts) ==
    LET ks_stat == d.ks[feature].stat
        ks_pval == d.ks[feature].pval
    IN  IF ValLT(Plain(ks_pval), ks_test_alpha)
        THEN <<DriftAlert(ts,
                          IF ValLT(Plain(ks_pval), Rat(1, 1000)) THEN "CRITICAL"
                                                                 ELSE "WARNING",
                          "STATISTICAL_DRIFT", "ks_test_" \o feature,
                          Plain(ks_stat), ks_test_alpha,
                          [ks_statistic |-> ks_stat, p_value |-> ks_pval])>>
        ELSE <<>>

\* faulty variant: the WARNING alert records the critical limit
PsiAlerts_WarningAgainstCritical(d, feature, ts) ==
    LET psi == Plain(d.psi[feature])
    IN  IF ValGT(psi, psi_critical)
        THEN <<DriftAlert(ts, "CRITICAL", "STATISTICAL_DRIFT", "psi_" \o feature,
                          psi, psi_critical, [psi_value |-> psi])>>
        ELSE IF ValGT(psi, psi_warning)
        THEN <<DriftAlert(ts, "WARNING", "STATISTICAL_DRIFT", "psi_" \o feature,
                          psi, psi_critical, [psi_value |-> psi])>>
        ELSE <<>>

PsiAlerts(d, feature, ts) ==
    LET psi == Plain(d.psi[feature])
    IN  IF ValGT(psi, psi_critical)
        THEN <<DriftAlert(ts, "CRITICAL", "STATISTICAL_DRIFT", "psi_" \o feature,
                          psi, psi_critical, [psi_value |-> psi])>>
        ELSE IF ValGT(psi, psi_warning)
        THEN <<DriftAlert(ts, "WARNING", "STATISTICAL_DRIFT", "psi_" \o feature,
                          psi, psi_warning, [psi_value |-> psi])>>
        ELSE <<>>

\* _calculate_psi(reference, current, bins=10) on samples of whole numbers.
\* The breakpoints are np.linspace(min, max, bins + 1) of the reference, the
\* first and the last replaced by -inf and +inf; edge k is
\* lo + k (hi - lo) / bins, and pd.cut puts v in bin k when
\* edge k-1 < v <= edge k.
psi_bins == 10

SeqMin(sample) == CHOOSE v \in {sample[i] : i \in DOMAIN sample} :
                      \A i \in DOMAIN sample : v <= sample[i]
SeqMax(sample) == CHOOSE v \in {sample[i] : i \in DOMAIN sample} :
                      \A i \in DOMAIN sample : v >= sample[i]

InBin(v, k, lo, hi, bins) ==
    /\ k = 1 \/ lo * bins + (k - 1) * (hi - lo) < v * bins
    /\ k = bins \/ v * bins <= lo * bins + k * (hi - lo)

\* pd.cut(sample, bins=breakpoints).value_counts(sort=False)
BinCounts(sample, lo, hi, bins) ==
    [k \in 1..bins |-> Cardinality({i \in DOMAIN sample : InBin(sample[i], k, lo, hi, bins)})]

\* percents.replace(0, 0.0001)
ReplaceZero(percent) == IF percent.num = 0 /\ percent.den # 0 THEN Rat(1, 10000) ELSE percent

\* The result is the sum over the bins of diff * ln(ratio), kept as its terms
\* [diff, ratio] with diff = cur - ref and ratio = cur / ref.  With a constant
\* reference sample the inner breakpoints are all equal, and pd.cut raises
\* ValueError (bin edges must be unique).
_calculate_psi(reference, current, bins) ==
    LET lo == SeqMin(reference)
        hi == SeqMax(reference)
        ref_counts == BinCounts(reference, lo, hi, bins)
        cur_counts == BinCounts(current, lo, hi, bins)
        ref_percents == [k \in 1..bins |-> ReplaceZero(Rat(ref_counts[k], Len(reference)))]
        cur_percents == [k \in 1..bins |-> ReplaceZero(Rat(cur_counts[k], Len(current)))]
    IN  IF lo = hi
        THEN [raised |-> TRUE, exception |-> "ValueError", terms |-> <<>>]
        ELSE [raised |-> FALSE, exception |-> "",
              terms |-> [k \in 1..bins |->
                            [diff |-> RSub(cur_percents[k], ref_percents[k]),
                             ratio |-> Rat(cur_percents[k].num * ref_percents[k].den,
                                           cur_percents[k].den * ref_percents[k].num)]]]

\* the sign of np.log(ratio) for a ratio > 0, and of one term of the sum
Sgn(x) == IF x > 0 THEN 1 ELSE IF x < 0 THEN 0 - 1 ELSE 0
LogSgn(ratio) == Sgn(ratio.num - ratio.den)
TermSgn(term) == Sgn(term.diff.num) * LogSgn(term.ratio)

\* faulty variant: a feature with exactly 30 observations is skipped too
RECURSIVE DriftLoop_SkipsThirty(_, _, _, _)
DriftLoop_SkipsThirty(d, ref_columns, i, ts) ==
    IF i > Len(feature_cols) THEN <<>>
    ELSE LET feature == feature_cols[i]
         IN  IF feature \notin d.columns \/ feature \notin ref_columns
             THEN DriftLoop_SkipsThirty(d, ref_columns, i + 1, ts)
             ELSE IF d.nonnull[feature] <= 30
             THEN DriftLoop_SkipsThirty(d, ref_columns, i + 1, ts)
             ELSE KsAlerts(d, feature, ts) \o PsiAlerts(d, feature, ts)
                      \o DriftLoop_SkipsThirty(d, ref_columns, i + 1, ts)

\* faulty variant: the PSI test is the else branch of the KS test, run only
\* when the KS test gave no alert
RECURSIVE DriftLoop_PsiUnlessKs(_, _, _, _)
DriftLoop_PsiUnlessKs(d, ref_columns, i, ts) ==
    IF i > Len(feature_cols) THEN <<>>
    ELSE LET feature == feature_cols[i]
         IN  IF feature \notin d.columns \/ feature \notin ref_columns
             THEN DriftLoop_PsiUnlessKs(d, ref_columns, i + 1, ts)
             ELSE IF d.nonnull[feature] < 30
             THEN DriftLoop_PsiUnlessKs(d, ref_columns, i + 1, ts)
             ELSE (IF KsAlerts(d, feature, ts) # <<>> THEN KsAlerts(d, feature, ts)
                   ELSE PsiAlerts(d, feature, ts))
                      \o DriftLoop_PsiUnlessKs(d, ref_columns, i + 1, ts)

\* the loop over self.feature_cols, from feature i on
RECURSIVE DriftLoop(_, _, _, _)
DriftLoop(d, ref_columns, i, ts) ==
    IF i > Len(feature_cols) THEN <<>>
    ELSE LET feature == feature_cols[i]
         IN  IF feature \notin d.columns \/ feature \notin ref_columns
             THEN DriftLoop(d, ref_columns, i + 1, ts)
             ELSE IF d.nonnull[feature] < 30
             THEN DriftLoop(d, ref_columns, i + 1, ts)
             ELSE KsAlerts(d, feature, ts) \o PsiAlerts(d, feature, ts)
                      \o DriftLoop(d, ref_columns, i + 1, ts)

_check_statistical_drift(d, ref_columns, ts) == DriftLoop(d, ref_columns, 1, ts)

(***************************************************************************)
(* Bias drift                                                              *)
(***************************************************************************)
\* np.mean(x['prediction_error'] ** 2) of the rows of subgroup g
SubgroupMSE(d, labels, g) ==
    LET idx == {i \in Valid(d.y_true, d.y_pred) : i \in DOMAIN labels /\ labels[i] = g}
    IN  Rat(SumOver(d.y_true, d.y_pred, idx).sq, Cardinality(idx))

\* faulty variant: a disparity equal to the limit is reported
BiasAlerts_Inclusive(d, demo_col, ts) ==
    LET labels == d.groups[demo_col]
        subgroups == {labels[i] : i \in DOMAIN labels}
        subgroup_mse == [g \in subgroups |-> SubgroupMSE(d, labels, g)]
        scored == {g \in subgroups : subgroup_mse[g].den # 0}
        worst == {g \in scored : \A h \in scored : RGE(subgroup_mse[g], subgroup_mse[h])}
        best == {g \in scored : \A h \in scored : RGE(subgroup_mse[h], subgroup_mse[g])}
        worst_group == CHOOSE g \in worst : \A h \in worst : g <= h
        best_group == CHOOSE g \in best : \A h \in best : g <= h
        disparity == RootDiff(subgroup_mse[worst_group], subgroup_mse[best_group])
    IN  IF scored # {} /\ ValGE(disparity, R(subgroup_rmse_disparity_max))
        THEN <<DriftAlert(ts, "WARNING", "BIAS_DRIFT", "subgroup_disparity_" \o demo_col,
                          disparity, R(subgroup_rmse_disparity_max),
                          [subgroup_rmse |-> subgroup_mse,
                           worst_group |-> worst_group,
                           best_group |-> best_group])>>
        ELSE <<>>

\* faulty variant: a disparity is reported as CRITICAL
BiasAlerts_Critical(d, demo_col, ts) ==
    LET labels == d.groups[demo_col]
        subgroups == {labels[i] : i \in DOMAIN labels}
        subgroup_mse == [g \in subgroups |-> SubgroupMSE(d, labels, g)]
        scored == {g \in subgroups : subgroup_mse[g].den # 0}
        worst == {g \in scored : \A h \in scored : RGE(subgroup_mse[g], subgroup_mse[h])}
        best == {g \in scored : \A h \in scored : RGE(subgroup_mse[h], subgroup_mse[g])}
        worst_group == CHOOSE g \in worst : \A h \in worst : g <= h
        best_group == CHOOSE g \in best : \A h \in best : g <= h
        disparity == RootDiff(subgroup_mse[worst_group], subgroup_mse[best_group])
    IN  IF scored # {} /\ ValGT(disparity, R(subgroup_rmse_disparity_max))
        THEN <<DriftAlert(ts, "CRITICAL", "BIAS_DRIFT", "subgroup_disparity_" \o demo_col,
                          disparity, R(subgroup_rmse_disparity_max),
                          [subgroup_rmse |-> subgroup_mse,
                           worst_group |-> worst_group,
                           best_group |-> best_group])>>
        ELSE <<>>

BiasAlerts(d, demo_col, ts) ==
    LET labels == d.groups[demo_col]
        subgroups == {labels[i] : i \in DOMAIN labels}
        subgroup_mse == [g \in subgroups |-> SubgroupMSE(d, labels, g)]
        \* Series.max / min / idxmax / idxmin skip NaN and take the first extreme
        scored == {g \in subgroups : subgroup_mse[g].den # 0}
        worst == {g \in scored : \A h \in scored : RGE(subgroup_mse[g], subgroup_mse[h])}
        best == {g \in scored : \A h \in scored : RGE(subgroup_mse[h], subgroup_mse[g])}
        worst_group == CHOOSE g \in worst : \A h \in worst : g <= h
        best_group == CHOOSE g \in best : \A h \in best : g <= h
        disparity == RootDiff(subgroup_mse[worst_group], subgroup_mse[best_group])
    IN  IF scored # {} /\ ValGT(disparity, R(subgroup_rmse_disparity_max))
        THEN <<DriftAlert(ts, "WARNING", "BIAS_DRIFT", "subgroup_disparity_" \o demo_col,
                          disparity, R(subgroup_rmse_disparity_max),
                          [subgroup_rmse |-> subgroup_mse,
                           worst_group |-> worst_group,
                           best_group |-> best_group])>>
        ELSE <<>>

\* the loop over demographic_cols, from column i on
RECURSIVE BiasLoop(_, _, _, _)
BiasLoop(d, cols, i, ts) ==
    IF i > Len(cols) THEN <<>>
    ELSE IF cols[i] \notin d.demo_columns THEN BiasLoop(d, cols, i + 1, ts)
    ELSE BiasAlerts(d, cols[i], ts) \o BiasLoop(d, cols, i + 1, ts)

_check_bias_drift(d, cols, ts) ==
    IF ~d.has_target THEN [raised |-> FALSE, exception |-> "", alerts |-> <<>>]
    ELSE IF ~HasFeatures(d)
    THEN [raised |-> TRUE, exception |-> "KeyError", alerts |-> <<>>]
    ELSE IF d.predict_raises
    THEN [raised |-> TRUE, exception |-> "PredictError", alerts |-> <<>>]
    ELSE [raised |-> FALSE, exception |-> "", alerts |-> BiasLoop(d, cols, 1, ts)]

(***************************************************************************)
(* Summary                                                                 *)
(***************************************************************************)
\* f"{perf.get('rmse', 'N/A'):.2f}" raises ValueError when the key is absent:
\* the format code 'f' does not apply to the string 'N/A'.
_generate_summary(rep) ==
    LET n_critical == SeverityCount(rep.alerts, "CRITICAL")
        n_warning == SeverityCount(rep.alerts, "WARNING")
        status == IF rep.retraining_required THEN "RETRAINING REQUIRED"
                  ELSE IF n_critical > 0 THEN "CRITICAL ISSUES DETECTED"
                  ELSE IF n_warning > 0 THEN "WARNINGS DETECTED"
                  ELSE "ALL CHECKS PASSED"
        perf == rep.metrics.performance
    IN  IF "performance" \in DOMAIN rep.metrics
           /\ ("rmse" \notin DOMAIN perf \/ "mae" \notin DOMAIN perf)
        THEN [raised |-> TRUE, summary |-> ""]
        ELSE [raised |-> FALSE, summary |-> status]


(***************************************************************************)
(* check_drift, one step of its body per action                            *)
(***************************************************************************)
NoCall == [fn |-> "none"]

NoBatch ==
    [columns |-> FeatureSet, glucose_numeric |-> TRUE, has_target |-> FALSE, n |-> 0,
     nonnull |-> [f \in FeatureSet |-> 0], glucose_raw |-> <<>>,
     outlier_cells |-> 0, z_size |-> 0,
     ks |-> [f \in FeatureSet |-> [stat |-> R(0), pval |-> R(1)]],
     psi |-> [f \in FeatureSet |-> R(0)],
     y_true |-> <<>>, y_pred |-> <<>>, predict_raises |-> FALSE,
     demo_columns |-> {}, groups |-> EmptyDict]

NewReport(ts, n_samples) ==
    [timestamp |-> ts, n_samples |-> n_samples, alerts |-> <<>>,
     metrics |-> EmptyDict, retraining_required |-> FALSE, summary |-> ""]

\* self.reference_data has every feature column, none of them empty or
\* constant (ks_2samp and _calculate_psi return on them)
reference_columns == FeatureSet

\* __init__
Constructed ==
    /\ pc = "idle"
    /\ data = NoBatch
    /\ demographic_cols = <<>>
    /\ report = NewReport(0, 0)
    /\ alert_history = <<>>
    /\ now = 0
    /\ outcome = "none"

Init == call = NoCall /\ Constructed

\* the except clause of check_drift: log and re-raise the exception
Raise(exception) ==
    /\ pc' = "idle"
    /\ outcome' = exception
    /\ UNCHANGED data

\* check_drift(new_data, demographic_cols) is called: the report is created
Start(batch, cols) ==
    /\ pc = "idle"
    /\ now' = now + 1
    /\ data' = batch
    /\ demographic_cols' = cols
    /\ report' = NewReport(now + 1, batch.n)
    /\ pc' = "quality"
    /\ outcome' = "running"
    /\ UNCHANGED <<call, alert_history>>

\* [1/5]
QualityStep ==
    /\ pc = "quality"
    /\ LET r == _check_data_quality(data, report.timestamp)
       IN  IF r.raised
           THEN Raise(r.exception) /\ UNCHANGED report
           ELSE /\ report' = [report EXCEPT !.alerts = @ \o r.alerts]
                /\ pc' = "drift"
                /\ UNCHANGED <<data, outcome>>
    /\ UNCHANGED <<call, demographic_cols, alert_history, now>>

\* [2/5]
DriftStep ==
    /\ pc = "drift"
    /\ report' = [report EXCEPT !.alerts =
                      @ \o _check_statistical_drift(data, reference_columns,
                                                    report.timestamp)]
    /\ pc' = "performance"
    /\ UNCHANGED <<call, data, demographic_cols, alert_history, now, outcome>>

\* [3/5]
PerformanceStep ==
    /\ pc = "performance"
    /\ LET r == _check_performance(data, report.timestamp)
       IN  IF r.raised
           THEN Raise(r.exception) /\ UNCHANGED report
           ELSE /\ report' = [report EXCEPT
                                 !.metrics = [performance |-> r.metrics],
                                 !.alerts = @ \o r.alerts]
                /\ pc' = "bias"
                /\ UNCHANGED <<data, outcome>>
    /\ UNCHANGED <<call, demographic_cols, alert_history, now>>

\* [4/5]: runs only when demographic_cols is non-empty and every one of its
\* columns is in the batch
BiasStep ==
    /\ pc = "bias"
    /\ IF /\ demographic_cols # <<>>
          /\ \A i \in DOMAIN demographic_cols :
                 demographic_cols[i] \in data.demo_columns
       THEN LET r == _check_bias_drift(data, demographic_cols, report.timestamp)
            IN  IF r.raised
                THEN Raise(r.exception) /\ UNCHANGED report
                ELSE /\ report' = [report EXCEPT !.alerts = @ \o r.alerts]
                     /\ pc' = "decision"
                     /\ UNCHANGED <<data, outcome>>
       ELSE /\ pc' = "decision"
            /\ UNCHANGED <<report, data, outcome>>
    /\ UNCHANGED <<call, demographic_cols, alert_history, now>>

\* faulty variant: the decision counts the ledger's alerts with the cycle's
DecisionStep_CountsLedger ==
    /\ pc = "decision"
    /\ report' = [report EXCEPT
                     !.retraining_required =
                         _evaluate_retraining_need(alert_history \o report.alerts)]
    /\ pc' = "store"
    /\ UNCHANGED <<call, data, demographic_cols, alert_history, now, outcome>>

\* faulty variant: a verdict of retraining is recorded as an alert of the cycle
DecisionStep_RecordsRetraining ==
    /\ pc = "decision"
    /\ LET verdict == _evaluate_retraining_need(report.alerts)
       IN  report' = [report EXCEPT
                         !.retraining_required = verdict,
                         !.alerts = IF verdict
                                    THEN @ \o <<DriftAlert(report.timestamp,
                                                           "RETRAINING_REQUIRED", "PERFORMANCE",
                                                           "retraining", Plain(R(1)), R(0),
                                                           EmptyDict)>>
                                    ELSE @]
    /\ pc' = "store"
    /\ UNCHANGED <<call, data, demographic_cols, alert_history, now, outcome>>

\* [5/5]
DecisionStep ==
    /\ pc = "decision"
    /\ report' = [report EXCEPT
                     !.retraining_required = _evaluate_retraining_need(report.alerts)]
    /\ pc' = "store"
    /\ UNCHANGED <<call, data, demographic_cols, alert_history, now, outcome>>

\* faulty variant: the ledger is assigned the cycle's alerts, not extended
StoreStep_Replaces ==
    /\ pc = "store"
    /\ alert_history' = report.alerts
    /\ pc' = "summary"
    /\ UNCHANGED <<call, data, demographic_cols, report, now, outcome>>

\* faulty variant: the cycle writes back the ledger as it was when the cycle
\* started, extended with its alerts (a read-modify-write that is not atomic)
StoreStep_FromSnapshot ==
    /\ pc = "store"
    /\ LET AtStart(a) == a.timestamp < report.timestamp
       IN  alert_history' = SelectSeq(alert_history, AtStart) \o report.alerts
    /\ pc' = "summary"
    /\ UNCHANGED <<call, data, demographic_cols, report, now, outcome>>

\* self.alert_history.extend(report['alerts'])
StoreStep ==
    /\ pc = "store"
    /\ alert_history' = alert_history \o report.alerts
    /\ pc' = "summary"
    /\ UNCHANGED <<call, data, demographic_cols, report, now, outcome>>

\* report['summary'] = self._generate_summary(report)
SummaryStep ==
    /\ pc = "summary"
    /\ LET r == _generate_summary(report)
       IN  IF r.raised
           THEN Raise("ValueError") /\ UNCHANGED report
           ELSE /\ report' = [report EXCEPT !.summary = r.summary]
                /\ pc' = "log"
                /\ UNCHANGED <<data, outcome>>
    /\ UNCHANGED <<call, demographic_cols, alert_history, now>>

\* self._log_report(report); return report.  Writing the report file is the
\* one call here that the environment can fail (disk_fails).
LogStep(disk_fails) ==
    /\ pc = "log"
    /\ IF disk_fails
       THEN Raise("OSError")
       ELSE /\ pc' = "idle"
            /\ outcome' = "returned"
            /\ UNCHANGED data
    /\ UNCHANGED <<call, demographic_cols, report, alert_history, now>>


(***************************************************************************)
(* Bounds and the batches explored                                         *)
(***************************************************************************)
MaxCycles == 1          \* check_drift calls on one monitor
MaxDemoCols == 5        \* demographic columns declared in one call
MaxAlerts == 5          \* alerts handed to _evaluate_retraining_need directly
MaxRows == 5            \* rows handed to _check_performance directly
MaxGlucoseSteps == 60   \* readings 0, 5, ..., 300 mg/dL for _clarke_zone
GlucoseStep == 5

Rep(x, k) == [i \in 1..k |-> x]

DemoName(i) == "demo_" \o ToString(i)
DemoSet == {DemoName(i) : i \in 1..(MaxDemoCols + 1)}

\* A batch of `bulk` rows with true glucose 100 predicted with error err, then
\* `tail` rows with true glucose 71 predicted 56 (a Zone C error); the bulk is
\* subgroup 1 and the tail subgroup 2 of every demographic column.  `low` puts
\* one reading of 30 mg/dL in glucose_raw, `shifted` gives glucose_raw a PSI
\* of 0.30.  Every feature is fully populated and passes the KS test.
MkBatch(err, bulk, tail, target, low, shifted) ==
    LET n == bulk + tail
    IN  [columns |-> FeatureSet, glucose_numeric |-> TRUE, has_target |-> target,
         n |-> n,
         nonnull |-> [f \in FeatureSet |-> n],
         glucose_raw |-> [i \in 1..n |-> IF low /\ i = 1 THEN Num(30) ELSE Num(100)],
         outlier_cells |-> 0, z_size |-> n * Len(feature_cols),
         ks |-> [f \in FeatureSet |-> [stat |-> Rat(5, 100), pval |-> Rat(50, 100)]],
         psi |-> [f \in FeatureSet |->
                     IF shifted /\ f = "glucose_raw" THEN Rat(30, 100) ELSE Rat(1, 100)],
         y_true |-> IF target THEN Rep(Num(100), bulk) \o Rep(Num(71), tail) ELSE <<>>,
         y_pred |-> Rep(Num(100 + err), bulk) \o Rep(Num(56), tail),
         predict_raises |-> FALSE,
         demo_columns |-> DemoSet,
         groups |-> [c \in DemoSet |-> Rep(1, bulk) \o Rep(2, tail)]]

\* (err, bulk, tail): no performance alert; a Clarke alert alone; an RMSE
\* warning; a critical RMSE; a critical RMSE with a Clarke alert
RowShapes == {<<0, 30, 1>>, <<0, 4, 1>>, <<8, 30, 0>>, <<10, 30, 0>>, <<10, 1, 1>>}

MainBatches ==
    {MkBatch(s[1], s[2], s[3], target, low, shifted) :
        s \in RowShapes, target \in BOOLEAN, low \in BOOLEAN, shifted \in BOOLEAN}
    \cup {[MkBatch(0, 30, 0, TRUE, FALSE, FALSE) EXCEPT
               !.columns = FeatureSet \ {"velocity"}],
          [MkBatch(0, 30, 0, TRUE, FALSE, FALSE) EXCEPT !.glucose_numeric = FALSE],
          [MkBatch(0, 30, 1, TRUE, FALSE, FALSE) EXCEPT
               !.demo_columns = {DemoName(1)}],
          [MkBatch(0, 30, 0, TRUE, FALSE, FALSE) EXCEPT !.predict_raises = TRUE],
          MkBatch(0, 0, 0, TRUE, FALSE, FALSE)}

\* demographic_cols: None, or the first m column names
MainCols == {[i \in 1..m |-> DemoName(i)] : m \in 0..MaxDemoCols}

Next ==
    \/ \E batch \in MainBatches, cols \in MainCols :
           now < MaxCycles /\ Start(batch, cols)
    \/ QualityStep
    \/ DriftStep
    \/ PerformanceStep
    \/ BiasStep
    \/ DecisionStep
    \/ StoreStep
    \/ SummaryStep
    \/ \E disk_fails \in BOOLEAN : LogStep(disk_fails)

Spec == Init /\ [][Next]_vars


(***************************************************************************)
(* Direct calls of single methods, over wider inputs than the cycles reach *)
(***************************************************************************)
SeqsUpTo(S, n) == UNION {[1..k -> S] : k \in 0..n}

\* _evaluate_retraining_need(alerts)
EvalAlert(sev, met, val) ==
    DriftAlert(1, sev, "PERFORMANCE", met, Plain(R(val)), R(0), EmptyDict)

EvalAlerts ==
    {EvalAlert("CRITICAL", "rmse", 10), EvalAlert("WARNING", "rmse", 8),
     EvalAlert("CRITICAL", "clarke_ab_percentage", 90),
     EvalAlert("WARNING", "clarke_ab_percentage", 90),
     EvalAlert("CRITICAL", "clarke_ab_percentage", 96),
     EvalAlert("CRITICAL", "sensor_range_violations", 1),
     EvalAlert("WARNING", "missing_rate", 1),
     EvalAlert("INFO", "missing_rate", 0)}

InitEval ==
    /\ Constructed
    /\ \E alerts \in SeqsUpTo(EvalAlerts, MaxAlerts) :
           call = [fn |-> "_evaluate_retraining_need", alerts |-> alerts,
                   done |-> FALSE, ret |-> FALSE]

CallEvaluate ==
    /\ call.fn = "_evaluate_retraining_need" /\ ~call.done
    /\ call' = [call EXCEPT !.done = TRUE,
                            !.ret = _evaluate_retraining_need(call.alerts)]
    /\ UNCHANGED <<pc, data, demographic_cols, report, alert_history, now, outcome>>

SpecEval == InitEval /\ [][CallEvaluate]_vars

\* the same call on shorter lists, for properties that range over every
\* reordering of the list
MaxPermuted == 4        \* alerts in a list that is checked in every order

InitPermute ==
    /\ Constructed
    /\ \E alerts \in SeqsUpTo(EvalAlerts, MaxPermuted) :
           call = [fn |-> "_evaluate_retraining_need", alerts |-> alerts,
                   done |-> FALSE, ret |-> FALSE]

SpecPermute == InitPermute /\ [][CallEvaluate]_vars

\* _clarke_zone(true_glucose, pred_glucose)
Readings == {Num(GlucoseStep * k) : k \in 0..MaxGlucoseSteps} \cup {NaN}

InitClarke ==
    /\ Constructed
    /\ \E t \in Readings, p \in Readings :
           call = [fn |-> "_clarke_zone", true_glucose |-> t, pred_glucose |-> p,
                   done |-> FALSE, ret |-> ""]

CallClarkeZone ==
    /\ call.fn = "_clarke_zone" /\ ~call.done
    /\ call' = [call EXCEPT !.done = TRUE,
                            !.ret = _clarke_zone(call.true_glucose, call.pred_glucose)]
    /\ UNCHANGED <<pc, data, demographic_cols, report, alert_history, now, outcome>>

SpecClarke == InitClarke /\ [][CallClarkeZone]_vars

\* _check_performance(data)
PerfRows ==
    {<<Num(100), Num(100 + e)>> :
        e \in {0, rmse_warning, rmse_warning + 1, rmse_critical, rmse_critical + 1}}
    \cup {<<Num(71), Num(56)>>, <<Num(200), Num(150)>>, <<NaN, Num(100)>>}

PerfBatch(rows, target) ==
    [NoBatch EXCEPT !.has_target = target, !.n = Len(rows),
                    !.y_true = IF target THEN [i \in DOMAIN rows |-> rows[i][1]] ELSE <<>>,
                    !.y_pred = [i \in DOMAIN rows |-> rows[i][2]]]

InitPerf ==
    /\ Constructed
    /\ \E rows \in SeqsUpTo(PerfRows, MaxRows), target \in BOOLEAN :
           /\ target \/ Len(rows) <= 1
           /\ call = [fn |-> "_check_performance", data |-> PerfBatch(rows, target),
                      done |-> FALSE,
                      ret |-> PerfResult(FALSE, "", FALSE, EmptyDict, <<>>)]

CallCheckPerformance ==
    /\ call.fn = "_check_performance" /\ ~call.done
    /\ call' = [call EXCEPT !.done = TRUE, !.ret = _check_performance(call.data, 1)]
    /\ UNCHANGED <<pc, data, demographic_cols, report, alert_history, now, outcome>>

SpecPerf == InitPerf /\ [][CallCheckPerformance]_vars


(***************************************************************************)
(* Several cycles and PMCF reports on one monitor                          *)
(***************************************************************************)
MaxLedgerCycles == 2    \* check_drift calls on one monitor, ledger runs

\* 'RETRAINING' in a.severity, over the severities DriftAlert names
MentionsRetraining(severity) == severity = "RETRAINING_REQUIRED"

\* what generate_pmcf_report writes, as the numbers it renders.  A date of 0
\* is None; timestamps compare as the ISO strings do.
generate_pmcf_report(start_date, end_date, disk_fails) ==
    LET FromStart(a) == a.timestamp >= start_date
        ToEnd(a) == a.timestamp <= end_date
        from_start == IF start_date # 0 THEN SelectSeq(alert_history, FromStart)
                      ELSE alert_history
        filtered_alerts == IF end_date # 0 THEN SelectSeq(from_start, ToEnd)
                           ELSE from_start
        categories == {filtered_alerts[i].category : i \in DOMAIN filtered_alerts}
        InCategory(c) == {i \in DOMAIN filtered_alerts : filtered_alerts[i].category = c}
    IN  IF disk_fails THEN [raised |-> TRUE, exception |-> "OSError"]
        ELSE [raised |-> FALSE,
              total |-> Len(filtered_alerts),
              critical |-> SeverityCount(filtered_alerts, "CRITICAL"),
              warning |-> SeverityCount(filtered_alerts, "WARNING"),
              retraining |-> Cardinality({i \in DOMAIN filtered_alerts :
                                             MentionsRetraining(filtered_alerts[i].severity)}),
              by_category |-> [c \in categories |-> Cardinality(InCategory(c))],
              action_required |-> \E i \in DOMAIN filtered_alerts :
                                     filtered_alerts[i].severity = "CRITICAL"]

\* monitor.generate_pmcf_report(start_date, end_date), between two cycles
PmcfReport(start_date, end_date, disk_fails) ==
    /\ pc = "idle"
    /\ call' = [fn |-> "generate_pmcf_report", start_date |-> start_date,
                end_date |-> end_date, done |-> TRUE,
                ret |-> generate_pmcf_report(start_date, end_date, disk_fails)]
    /\ UNCHANGED <<pc, data, demographic_cols, report, alert_history, now, outcome>>

\* range, RMSE and Clarke alerts; a PSI alert with bias alerts; a range alert
\* on a batch without target
LedgerBatches ==
    {MkBatch(10, 1, 1, TRUE, TRUE, FALSE), MkBatch(0, 30, 1, TRUE, FALSE, TRUE),
     MkBatch(0, 4, 1, FALSE, TRUE, FALSE)}

LedgerCols == {<<>>, <<DemoName(1), DemoName(2)>>}

NextLedger ==
    \/ \E batch \in LedgerBatches, cols \in LedgerCols :
           now < MaxLedgerCycles /\ Start(batch, cols)
    \/ QualityStep
    \/ DriftStep
    \/ PerformanceStep
    \/ BiasStep
    \/ DecisionStep
    \/ StoreStep
    \/ SummaryStep
    \/ \E disk_fails \in BOOLEAN : LogStep(disk_fails)
    \/ \E start_date \in 0..MaxLedgerCycles, end_date \in 0..MaxLedgerCycles,
          disk_fails \in BOOLEAN : PmcfReport(start_date, end_date, disk_fails)

SpecLedger == Init /\ [][NextLedger]_vars


(***************************************************************************)
(* Two check_drift calls on one monitor, in two threads                    *)
(***************************************************************************)
\* The variables pc, data, demographic_cols, report and outcome are the frame
\* of the thread that runs; call holds the frame of the other thread.  The
\* interpreter can switch threads between any two steps of check_drift;
\* list.extend on a list is one call into the interpreter and is not split.
NotStarted ==
    [fn |-> "check_drift", pc |-> "idle", data |-> NoBatch,
     demographic_cols |-> <<>>, report |-> NewReport(0, 0), outcome |-> "none"]

InitOverlap == call = NotStarted /\ Constructed

ContextSwitch ==
    /\ call.fn = "check_drift"
    /\ call' = [fn |-> "check_drift", pc |-> pc, data |-> data,
                demographic_cols |-> demographic_cols, report |-> report,
                outcome |-> outcome]
    /\ pc' = call.pc
    /\ data' = call.data
    /\ demographic_cols' = call.demographic_cols
    /\ report' = call.report
    /\ outcome' = call.outcome
    /\ UNCHANGED <<alert_history, now>>

\* a range alert with RMSE and Clarke alerts; bias alerts; no alert
OverlapBatches ==
    {MkBatch(10, 1, 1, TRUE, TRUE, FALSE), MkBatch(0, 30, 1, TRUE, FALSE, FALSE),
     MkBatch(0, 30, 0, TRUE, FALSE, FALSE)}

NextOverlap ==
    \/ \E batch \in OverlapBatches, cols \in LedgerCols :
           outcome = "none" /\ Start(batch, cols)
    \/ QualityStep
    \/ DriftStep
    \/ PerformanceStep
    \/ BiasStep
    \/ DecisionStep
    \/ StoreStep
    \/ SummaryStep
    \/ \E disk_fails \in BOOLEAN : LogStep(disk_fails)
    \/ ContextSwitch

SpecOverlap == InitOverlap /\ [][NextOverlap]_vars


\* _check_bias_drift(data, demographic_cols)
MaxBiasRows == 5        \* rows handed to _check_bias_drift directly

\* a row: the prediction error on a true value of 100, and the row's subgroup
\* in the column demo_1; the column demo_2 holds one subgroup, demo_3 is absent
BiasRows == {<<0, 1>>, <<4, 1>>, <<0, 2>>, <<6, 2>>, <<15, 2>>}

BiasBatch(rows, target) ==
    [NoBatch EXCEPT !.has_target = target, !.n = Len(rows),
                    !.y_true = IF target THEN Rep(Num(100), Len(rows)) ELSE <<>>,
                    !.y_pred = [i \in DOMAIN rows |-> Num(100 + rows[i][1])],
                    !.demo_columns = {DemoName(1), DemoName(2)},
                    !.groups = (DemoName(1) :> [i \in DOMAIN rows |-> rows[i][2]])
                               @@ (DemoName(2) :> Rep(1, Len(rows)))]

BiasCols ==
    {<<DemoName(1)>>, <<DemoName(2), DemoName(1)>>, <<DemoName(3), DemoName(1)>>}

InitBias ==
    /\ Constructed
    /\ \E rows \in SeqsUpTo(BiasRows, MaxBiasRows), target \in BOOLEAN, cols \in BiasCols :
           /\ target \/ Len(rows) <= 1
           /\ cols = <<DemoName(1)>> \/ Len(rows) <= 2
           /\ call = [fn |-> "_check_bias_drift", data |-> BiasBatch(rows, target),
                      demographic_cols |-> cols, done |-> FALSE,
                      ret |-> [raised |-> FALSE, exception |-> "", alerts |-> <<>>]]

CallCheckBiasDrift ==
    /\ call.fn = "_check_bias_drift" /\ ~call.done
    /\ call' = [call EXCEPT !.done = TRUE,
                            !.ret = _check_bias_drift(call.data, call.demographic_cols, 1)]
    /\ UNCHANGED <<pc, data, demographic_cols, report, alert_history, now, outcome>>

SpecBias == InitBias /\ [][CallCheckBiasDrift]_vars


\* _check_data_quality(data)
MaxQualityRows == 4     \* rows with a chosen glucose_raw reading

QualityReadings == {Num(39), Num(40), Num(400), Num(401), NaN}

\* `lead` chosen readings, then `pad` rows reading 100; null cells in
\* glucose_raw where the reading is NaN and velocity_nulls more in velocity;
\* the z-scores cover the rows left by dropna()
QualityBatch(lead, pad, velocity_nulls, outliers) ==
    LET n == Len(lead) + pad
        glucose_nulls == Cardinality({i \in DOMAIN lead : lead[i].nan})
        complete == Min(n - glucose_nulls, n - velocity_nulls)
    IN  [NoBatch EXCEPT !.n = n,
                        !.glucose_raw = lead \o Rep(Num(100), pad),
                        !.nonnull = [f \in FeatureSet |->
                                        IF f = "glucose_raw" THEN n - glucose_nulls
                                        ELSE IF f = "velocity" THEN n - velocity_nulls
                                        ELSE n],
                        !.z_size = complete * Len(feature_cols),
                        !.outlier_cells = Min(outliers, complete)]

InitQuality ==
    /\ Constructed
    /\ \E lead \in SeqsUpTo(QualityReadings, MaxQualityRows), pad \in {0, 2, 47},
          velocity_nulls \in {0, 2, 4, 8}, outliers \in {0, 1} :
           /\ velocity_nulls <= Len(lead) + pad
           /\ call = [fn |-> "_check_data_quality",
                      data |-> QualityBatch(lead, pad, velocity_nulls, outliers),
                      done |-> FALSE,
                      ret |-> [raised |-> FALSE, exception |-> "", alerts |-> <<>>]]

CallCheckDataQuality ==
    /\ call.fn = "_check_data_quality" /\ ~call.done
    /\ call' = [call EXCEPT !.done = TRUE, !.ret = _check_data_quality(call.data, 1)]
    /\ UNCHANGED <<pc, data, demographic_cols, report, alert_history, now, outcome>>

SpecQuality == InitQuality /\ [][CallCheckDataQuality]_vars


\* _check_statistical_drift(data), against reference data with the columns
\* ref_columns
DriftFeatures == {"glucose_raw", "velocity", "lag_60m"}

\* what the two tests find for a feature: nothing, a KS shift alone, or both
DriftProfiles == {"none", "ks", "both"}
KsOf(profile) ==
    IF profile = "none" THEN [stat |-> Rat(5, 100), pval |-> Rat(50, 100)]
    ELSE [stat |-> Rat(40, 100), pval |-> Rat(1, 10000)]
PsiOf(profile) == IF profile = "both" THEN Rat(30, 100) ELSE Rat(1, 100)

\* shape[f] = [in_batch, in_ref, nonnull, profile] for f in DriftFeatures; the
\* other features are in both tables with 30 observations
DriftBatch(shape, others) ==
    LET At(f) == IF f \in DriftFeatures THEN shape[f]
                 ELSE [in_batch |-> TRUE, in_ref |-> TRUE, nonnull |-> 30,
                       profile |-> others]
    IN  [NoBatch EXCEPT !.n = 30,
                        !.columns = {f \in FeatureSet : At(f).in_batch},
                        !.nonnull = [f \in FeatureSet |-> At(f).nonnull],
                        !.ks = [f \in FeatureSet |-> KsOf(At(f).profile)],
                        !.psi = [f \in FeatureSet |-> PsiOf(At(f).profile)]]

InitDrift ==
    /\ Constructed
    /\ \E shape \in [DriftFeatures -> [in_batch : BOOLEAN, in_ref : BOOLEAN,
                                        nonnull : {29, 30}, profile : DriftProfiles]],
          others \in {"none", "both"} :
           call = [fn |-> "_check_statistical_drift",
                   data |-> DriftBatch(shape, others),
                   ref_columns |-> {f \in FeatureSet :
                                       f \in DriftFeatures => shape[f].in_ref},
                   done |-> FALSE, ret |-> <<>>]

CallCheckStatisticalDrift ==
    /\ call.fn = "_check_statistical_drift" /\ ~call.done
    /\ call' = [call EXCEPT !.done = TRUE,
                            !.ret = _check_statistical_drift(call.data,
                                                             call.ref_columns, 1)]
    /\ UNCHANGED <<pc, data, demographic_cols, report, alert_history, now, outcome>>

SpecDrift == InitDrift /\ [][CallCheckStatisticalDrift]_vars


\* _check_statistical_drift(data) on features that are all tested, over the
\* p-values and PSI values around the thresholds
TestedFeatures == {"glucose_raw", "velocity"}
KsPvals == {Rat(1, 2), Rat(1, 100), Rat(1, 200), Rat(1, 1000), Rat(1, 10000)}
PsiValues == {Rat(0, 100), Rat(10, 100), Rat(15, 100), Rat(25, 100), Rat(30, 100)}

\* found[f] = [pval, psi] for f in TestedFeatures; the other features show
\* no shift
TestsBatch(found) ==
    [NoBatch EXCEPT !.n = 30,
                    !.nonnull = [f \in FeatureSet |-> 30],
                    !.ks = [f \in FeatureSet |->
                               IF f \in TestedFeatures
                               THEN [stat |-> Rat(40, 100), pval |-> found[f].pval]
                               ELSE [stat |-> Rat(5, 100), pval |-> Rat(1, 2)]],
                    !.psi = [f \in FeatureSet |->
                                IF f \in TestedFeatures THEN found[f].psi
                                ELSE Rat(1, 100)]]

InitDriftTests ==
    /\ Constructed
    /\ \E found \in [TestedFeatures -> [pval : KsPvals, psi : PsiValues]] :
           call = [fn |-> "_check_statistical_drift", data |-> TestsBatch(found),
                   ref_columns |-> FeatureSet, done |-> FALSE, ret |-> <<>>]

SpecDriftTests == InitDriftTests /\ [][CallCheckStatisticalDrift]_vars


\* _calculate_psi(reference, current): two non-empty samples after dropna(),
\* each listed in ascending order (the function counts values, whatever
\* their order)
MaxSample == 4          \* values in a sample handed to _calculate_psi
SampleValues == {0, 1, 5, 10}
Samples ==
    {sample \in SeqsUpTo(SampleValues, MaxSample) :
        /\ Len(sample) >= 1
        /\ \A i \in 1..(Len(sample) - 1) : sample[i] <= sample[i + 1]}

InitPsi ==
    /\ Constructed
    /\ \E reference \in Samples, current \in Samples :
           call = [fn |-> "_calculate_psi", reference |-> reference,
                   current |-> current, done |-> FALSE,
                   ret |-> [raised |-> FALSE, exception |-> "", terms |-> <<>>]]

CallCalculatePsi ==
    /\ call.fn = "_calculate_psi" /\ ~call.done
    /\ call' = [call EXCEPT !.done = TRUE,
                            !.ret = _calculate_psi(call.reference, call.current, psi_bins)]
    /\ UNCHANGED <<pc, data, demographic_cols, report, alert_history, now, outcome>>

SpecPsi == InitPsi /\ [][CallCalculatePsi]_vars


\* the two methods that grade an alert by a warning and a critical limit:
\* _check_performance on a few rows, _check_statistical_drift on tested
\* features
MaxSeverityRows == 2    \* rows of the batches graded by RMSE

InitSeverity ==
    \/ InitDriftTests
    \/ /\ Constructed
       /\ \E rows \in SeqsUpTo(PerfRows, MaxSeverityRows) :
              call = [fn |-> "_check_performance", data |-> PerfBatch(rows, TRUE),
                      done |-> FALSE,
                      ret |-> PerfResult(FALSE, "", FALSE, EmptyDict, <<>>)]

NextSeverity ==
    \/ CallCheckPerformance
    \/ CallCheckStatisticalDrift

SpecSeverity == InitSeverity /\ [][NextSeverity]_vars


\* _clarke_zone on every pair of readings, and _check_performance on batches
\* of rows at the extremes of the grid and rows with a missing value
MaxZoneRows == 3        \* rows of the batches made of such rows

ZoneRows ==
    {<<Num(60), Num(200)>>, <<Num(250), Num(60)>>, <<Num(100), Num(100)>>,
     <<Num(71), Num(56)>>, <<NaN, Num(100)>>, <<Num(100), NaN>>, <<NaN, NaN>>}

InitZones ==
    \/ InitClarke
    \/ /\ Constructed
       /\ \E rows \in SeqsUpTo(ZoneRows, MaxZoneRows) :
              call = [fn |-> "_check_performance", data |-> PerfBatch(rows, TRUE),
                      done |-> FALSE,
                      ret |-> PerfResult(FALSE, "", FALSE, EmptyDict, <<>>)]

NextZones ==
    \/ CallClarkeZone
    \/ CallCheckPerformance

SpecZones == InitZones /\ [][NextZones]_vars


(***************************************************************************)
(* Properties                                                              *)
(***************************************************************************)
\* the retraining decision of the current cycle has been taken
Decided == pc \in {"store", "summary", "log"} \/ outcome = "returned"
\* _check_performance has run in the current cycle
PerformanceDone == pc \in {"bias", "decision"} \/ Decided

AlertsWith(alerts, met) == {i \in DOMAIN alerts : alerts[i].metric = met}
Severities(alerts, met) == {alerts[i].severity : i \in AlertsWith(alerts, met)}
Count(alerts, sev) == Cardinality({i \in DOMAIN alerts : alerts[i].severity = sev})
HasCriticalRmse(alerts) ==
    \E i \in DOMAIN alerts :
        alerts[i].metric = "rmse" /\ alerts[i].severity = "CRITICAL"
HasLowClarke(alerts) ==
    \E i \in DOMAIN alerts :
        /\ alerts[i].metric = "clarke_ab_percentage"
        /\ ValLT(alerts[i].value, R(clarke_ab_min))

\* C1: once check_drift has decided (so in every report it returns), a report
\* whose alerts include a CRITICAL rmse alert has retraining_required true,
\* whatever the other alerts of the cycle are.
C1_CriticalRmseForcesRetraining ==
    Decided /\ HasCriticalRmse(report.alerts) => report.retraining_required

\* a returned report with a CRITICAL rmse alert behind at least two other alerts
C1_Witness ==
    /\ outcome = "returned"
    /\ Len(report.alerts) >= 3
    /\ report.alerts[1].metric # "rmse"
    /\ HasCriticalRmse(report.alerts)
    /\ report.retraining_required

\* C2: when the batch has a target column and Zone A% + Zone B% of the
\* computed Clarke metrics is below clarke_ab_min, the cycle's alerts hold a
\* CRITICAL PERFORMANCE alert with metric clarke_ab_percentage, and once the
\* decision is taken retraining_required is true.
C2_LowClarkeAlertsAndRetrains ==
    LET perf == report.metrics.performance
        zone_ab == Plain(RAdd(perf.clarke.zone_a_pct, perf.clarke.zone_b_pct))
    IN  (/\ PerformanceDone
         /\ "performance" \in DOMAIN report.metrics
         /\ "clarke" \in DOMAIN perf
         /\ ValLT(zone_ab, R(clarke_ab_min)))
        => /\ \E i \in AlertsWith(report.alerts, "clarke_ab_percentage") :
                  /\ report.alerts[i].severity = "CRITICAL"
                  /\ report.alerts[i].category = "PERFORMANCE"
                  /\ report.alerts[i].value = zone_ab
           /\ Decided => report.retraining_required

\* a returned report whose only alert is the Clarke alert
C2_Witness ==
    /\ outcome = "returned"
    /\ Len(report.alerts) = 1
    /\ report.alerts[1].metric = "clarke_ab_percentage"
    /\ report.retraining_required

\* C3: for a list with no CRITICAL rmse alert, no clarke_ab_percentage alert
\* and fewer than 5 WARNING alerts, _evaluate_retraining_need returns true
\* exactly when at least 3 alerts are CRITICAL (so false for 2 or fewer).
C3_ThreeCriticalAlerts ==
    (/\ call.done
     /\ ~HasCriticalRmse(call.alerts)
     /\ AlertsWith(call.alerts, "clarke_ab_percentage") = {}
     /\ Count(call.alerts, "WARNING") < 5)
    => (call.ret <=> Count(call.alerts, "CRITICAL") >= 3)

\* exactly three CRITICAL alerts, none an immediate trigger: true
C3_Witness ==
    /\ call.done
    /\ ~HasCriticalRmse(call.alerts)
    /\ AlertsWith(call.alerts, "clarke_ab_percentage") = {}
    /\ Count(call.alerts, "WARNING") = 2
    /\ Count(call.alerts, "CRITICAL") = 3
    /\ call.ret

\* C4: for a list with no CRITICAL alert, _evaluate_retraining_need returns
\* true when 5 or more alerts are WARNING, and false when 4 or fewer are and
\* the list holds no clarke_ab_percentage alert.
C4_FiveWarnings ==
    (call.done /\ Count(call.alerts, "CRITICAL") = 0)
    => /\ Count(call.alerts, "WARNING") >= 5 => call.ret
       /\ (/\ Count(call.alerts, "WARNING") <= 4
           /\ AlertsWith(call.alerts, "clarke_ab_percentage") = {}) => ~call.ret

\* exactly five WARNING alerts and nothing else: true
C4_Witness ==
    /\ call.done
    /\ Len(call.alerts) = 5
    /\ Count(call.alerts, "WARNING") = 5
    /\ AlertsWith(call.alerts, "clarke_ab_percentage") = {}
    /\ call.ret

\* C5: _evaluate_retraining_need returns true if and only if some alert is a
\* CRITICAL rmse alert, or some clarke_ab_percentage alert has a value below
\* clarke_ab_min, or at least 3 alerts are CRITICAL, or at least 5 are WARNING.
C5_VerdictIffOneOfFour ==
    call.done =>
        (call.ret <=> \/ HasCriticalRmse(call.alerts)
                      \/ HasLowClarke(call.alerts)
                      \/ Count(call.alerts, "CRITICAL") >= 3
                      \/ Count(call.alerts, "WARNING") >= 5)

\* true by the Clarke value alone: the low Clarke alert is a WARNING, and a
\* CRITICAL Clarke alert with a value above the limit is beside it
C5_Witness ==
    /\ call.done
    /\ call.ret
    /\ ~HasCriticalRmse(call.alerts)
    /\ Count(call.alerts, "CRITICAL") = 1
    /\ Count(call.alerts, "WARNING") = 1
    /\ Severities(call.alerts, "clarke_ab_percentage") = {"CRITICAL", "WARNING"}

\* the rmse alert the thresholds call for, with inclusive and with strict tests
RmseLevelInclusive(rmse) ==
    IF ValGE(rmse, R(rmse_critical)) THEN {"CRITICAL"}
    ELSE IF ValGE(rmse, R(rmse_warning)) THEN {"WARNING"}
    ELSE {}
RmseLevelStrict(rmse) ==
    IF ValGT(rmse, R(rmse_critical)) THEN {"CRITICAL"}
    ELSE IF ValGT(rmse, R(rmse_warning)) THEN {"WARNING"}
    ELSE {}
RmseComputed == call.done /\ "rmse" \in DOMAIN call.ret.metrics

\* C6 (as stated): _check_performance emits a CRITICAL rmse alert whenever
\* RMSE >= rmse_critical, otherwise a WARNING rmse alert whenever
\* RMSE >= rmse_warning, and otherwise no rmse alert.
C6_InclusiveThresholds ==
    RmseComputed =>
        /\ Severities(call.ret.alerts, "rmse") = RmseLevelInclusive(call.ret.metrics.rmse)
        /\ Cardinality(AlertsWith(call.ret.alerts, "rmse")) <= 1

\* C6 (amended): _check_performance emits a CRITICAL rmse alert exactly when
\* RMSE > rmse_critical, otherwise a WARNING rmse alert exactly when
\* RMSE > rmse_warning, and otherwise no rmse alert; an RMSE equal to a
\* threshold does not reach that threshold's level.
C6_StrictThresholds ==
    RmseComputed =>
        /\ Severities(call.ret.alerts, "rmse") = RmseLevelStrict(call.ret.metrics.rmse)
        /\ Cardinality(AlertsWith(call.ret.alerts, "rmse")) <= 1

\* an RMSE exactly equal to rmse_critical, reported as a WARNING
C6_Witness ==
    /\ RmseComputed
    /\ ValGE(call.ret.metrics.rmse, R(rmse_critical))
    /\ ValLE(call.ret.metrics.rmse, R(rmse_critical))
    /\ Severities(call.ret.alerts, "rmse") = {"WARNING"}

TargetlessBatch == outcome # "none" /\ HasFeatures(data) /\ ~data.has_target

\* C7 (as stated): for a batch with every feature column and no target_30min
\* column, the performance step leaves empty performance metrics and no
\* PERFORMANCE alert, and check_drift does not raise: the cycle ends, if the
\* report file can be written, by returning the report.
C7_TargetlessBatchReturnsReport ==
    TargetlessBatch =>
        /\ PerformanceDone =>
               /\ report.metrics.performance = EmptyDict
               /\ \A i \in DOMAIN report.alerts : report.alerts[i].category # "PERFORMANCE"
        /\ outcome \in {"running", "returned", "OSError"}

\* the zone the rules of the specification give, first match winning
RuleA(t, p) == (LE(t, Num(70)) /\ LE(p, Num(70))) \/ WithinTwentyPct(t, p)
RuleE(t, p) == (LE(t, Num(70)) /\ GE(p, Num(180))) \/ (GE(t, Num(180)) /\ LE(p, Num(70)))
RuleD(t, p) == (LT(t, Num(70)) /\ GT(p, Num(180))) \/ (GT(t, Num(240)) /\ LT(p, Num(70)))
RuleC(t, p) ==
    \/ LE(Num(70), t) /\ LE(t, Num(290)) /\ LE(p, Num(70))
    \/ LE(Num(70), t) /\ LE(t, Num(180)) /\ GE(p, Num(240))
RuleZone(t, p) ==
    IF RuleA(t, p) THEN "A"
    ELSE IF RuleE(t, p) THEN "E"
    ELSE IF RuleD(t, p) THEN "D"
    ELSE IF RuleC(t, p) THEN "C"
    ELSE "B"

\* C8: _clarke_zone gives every (true, predicted) pair exactly one of the
\* zones A..E, the one of the first matching rule in the order A, E, D, C,
\* with B as the default.
C8_ZoneByRuleOrder ==
    call.done =>
        /\ call.ret \in Zones
        /\ call.ret = RuleZone(call.true_glucose, call.pred_glucose)

\* true = 240, predicted = 65 matches the rules of E and of C: Zone E
C8_Witness ==
    /\ call.done
    /\ call.true_glucose = Num(240)
    /\ call.pred_glucose = Num(65)
    /\ RuleC(call.true_glucose, call.pred_glucose)
    /\ call.ret = "E"

ClarkeComputed == call.done /\ "clarke" \in DOMAIN call.ret.metrics
ZoneCountSum(zone_counts) ==
    zone_counts["A"] + zone_counts["B"] + zone_counts["C"] + zone_counts["D"]
        + zone_counts["E"]

\* C9: for a non-empty batch the five zone counts of _calculate_clarke_metrics
\* sum to the number of rows, and the five zone percentages sum to 100.
C9_ZonesCoverEveryRow ==
    ClarkeComputed =>
        LET clarke == call.ret.metrics.clarke
            total == RAdd(clarke.zone_a_pct, RAdd(clarke.zone_b_pct,
                     RAdd(clarke.zone_c_pct, RAdd(clarke.zone_d_pct, clarke.zone_e_pct))))
        IN  /\ call.data.n > 0
            /\ ZoneCountSum(clarke.zone_counts) = call.data.n
            /\ total.den # 0
            /\ total.num = 100 * total.den

\* a batch of three rows or more that fills zones A, B and C, a row with a
\* missing value among them
C9_Witness ==
    /\ ClarkeComputed
    /\ call.data.n >= 3
    /\ \E i \in DOMAIN call.data.y_true : call.data.y_true[i].nan
    /\ \A z \in {"A", "B", "C"} : call.ret.metrics.clarke.zone_counts[z] > 0

OnlyBiasAlerts ==
    /\ Decided
    /\ report.alerts # <<>>
    /\ \A i \in DOMAIN report.alerts : report.alerts[i].category = "BIAS_DRIFT"
NoCriticalBias(alerts) ==
    \A i \in DOMAIN alerts :
        alerts[i].category = "BIAS_DRIFT" => alerts[i].severity # "CRITICAL"

\* C10 (as stated): a cycle whose alerts are all BIAS_DRIFT alerts, however
\* many grouping columns raised one, has retraining_required false; and no
\* BIAS_DRIFT alert is CRITICAL.
C10_BiasNeverForcesRetraining ==
    /\ OnlyBiasAlerts => ~report.retraining_required
    /\ NoCriticalBias(report.alerts) /\ NoCriticalBias(alert_history)

\* C10 (amended): a cycle whose alerts are all BIAS_DRIFT alerts has
\* retraining_required true exactly when there are 5 of them or more (the
\* warning-volume rule); and no BIAS_DRIFT alert is CRITICAL.
C10_BiasForcesRetrainingOnlyByVolume ==
    /\ OnlyBiasAlerts => (report.retraining_required <=> Len(report.alerts) >= 5)
    /\ NoCriticalBias(report.alerts) /\ NoCriticalBias(alert_history)

\* five grouping columns, each over the disparity limit, and nothing else
C10_Witness ==
    /\ outcome = "returned"
    /\ OnlyBiasAlerts
    /\ Len(report.alerts) = 5
    /\ report.retraining_required

\* C11 (as stated): a cycle returns a full report or raises.  With a feature
\* column absent check_drift raises the KeyError and returns nothing; with
\* every feature column present, whatever the cells hold, _check_data_quality
\* does not raise.
C11_ScreenerRaisesOnlyForAbsentColumns ==
    outcome # "none" =>
        /\ outcome = "returned" =>
               report.summary # "" /\ "performance" \in DOMAIN report.metrics
        /\ ~HasFeatures(data) => outcome \in {"running", "KeyError"}
        /\ HasFeatures(data) =>
               /\ ~_check_data_quality(data, report.timestamp).raised
               /\ outcome # "TypeError"

IsPrefix(s, t) == Len(s) <= Len(t) /\ SubSeq(t, 1, Len(s)) = s
\* the alerts of the ledger stamped by cycles before cycle ts
EarlierAlerts(ts) ==
    LET Before(a) == a.timestamp < ts
    IN  SelectSeq(alert_history, Before)
\* a step keeps the ledger as a prefix of the new ledger; the ledger changes
\* only by the cycle's extend, and not in a generate_pmcf_report step
LedgerStep ==
    /\ IsPrefix(alert_history, alert_history')
    /\ alert_history' # alert_history =>
           pc = "store" /\ alert_history' = alert_history \o report.alerts
    /\ call' # call => alert_history' = alert_history
\* before the extend the ledger holds what earlier cycles left; after a
\* completed cycle it holds that, followed by the report's alerts
LedgerBlock ==
    /\ pc \in {"quality", "drift", "performance", "bias", "decision", "store"} =>
           alert_history = EarlierAlerts(now)
    /\ outcome = "returned" => alert_history = EarlierAlerts(now) \o report.alerts

\* C12: over any sequence of check_drift and generate_pmcf_report calls the
\* ledger only grows at its end (no alert in it is removed, reordered or
\* changed); after each completed cycle it is its value before the cycle
\* followed by the report's alerts in report order; generate_pmcf_report
\* leaves it unchanged.
C12_LedgerAppendOnly == [](LedgerBlock) /\ [][LedgerStep]_vars

\* a later cycle has returned with alerts, after earlier alerts and
\* a PMCF report
C12_Witness ==
    /\ outcome = "returned"
    /\ now >= 2
    /\ EarlierAlerts(now) # <<>>
    /\ report.alerts # <<>>
    /\ call.fn = "generate_pmcf_report"
    /\ alert_history = EarlierAlerts(now) \o report.alerts

BothReturned ==
    call.fn = "check_drift" /\ outcome = "returned" /\ call.outcome = "returned"

\* C13: when two check_drift cycles on one monitor overlap and both have
\* returned, the ledger holds the alerts of both, each cycle's alerts once
\* and as one block in report order: it is one report's alerts followed by
\* the other's.
C13_OverlappingAppendsAreBlocks ==
    BothReturned =>
        \/ alert_history = report.alerts \o call.report.alerts
        \/ alert_history = call.report.alerts \o report.alerts

\* the cycle that started second extended the ledger first: the two
\* overlapped, and both blocks are in the ledger
C13_Witness ==
    /\ BothReturned
    /\ report.alerts # <<>> /\ call.report.alerts # <<>>
    /\ report.timestamp < call.report.timestamp
    /\ alert_history = call.report.alerts \o report.alerts

\* the verdict the four rules give on a list of alerts
RuleVerdict(alerts) ==
    \/ HasCriticalRmse(alerts)
    \/ HasLowClarke(alerts)
    \/ Count(alerts, "CRITICAL") >= 3
    \/ Count(alerts, "WARNING") >= 5

\* C14: the report of a cycle starts empty, every alert in it was generated
\* in that cycle (none comes from the ledger), and its verdict is the verdict
\* of the rules on the report's own alerts, whatever earlier cycles left in
\* the ledger.
C14_VerdictFromThisCycleOnly ==
    /\ pc = "quality" => report = NewReport(now, data.n)
    /\ \A i \in DOMAIN report.alerts : report.alerts[i].timestamp = report.timestamp
    /\ Decided => (report.retraining_required <=> RuleVerdict(report.alerts))

\* a cycle returns with an alert and no retraining, over a ledger whose
\* earlier alerts would by themselves give a verdict of retraining
C14_Witness ==
    /\ outcome = "returned"
    /\ now >= 2
    /\ RuleVerdict(EarlierAlerts(now))
    /\ Count(EarlierAlerts(now), "CRITICAL") >= 3
    /\ report.alerts # <<>>
    /\ ~report.retraining_required

Permuted(alerts, p) == [i \in DOMAIN alerts |-> alerts[p[i]]]

\* C15: _evaluate_retraining_need returns the same boolean on an alert list
\* and on every permutation of it.
C15_VerdictIgnoresOrder ==
    call.done =>
        \A p \in Permutations(DOMAIN call.alerts) :
            _evaluate_retraining_need(Permuted(call.alerts, p)) = call.ret

\* the one trigger, a CRITICAL rmse alert, is last behind two other alerts
C15_Witness ==
    /\ call.done
    /\ Len(call.alerts) = 3
    /\ call.alerts[1].metric = "missing_rate"
    /\ call.alerts[2].metric = "sensor_range_violations"
    /\ call.alerts[3].metric = "rmse" /\ call.alerts[3].severity = "CRITICAL"
    /\ call.ret

\* step [4/5] of the current cycle is over
BiasDone == pc = "decision" \/ Decided
DeclaredPresent ==
    {demographic_cols[i] : i \in DOMAIN demographic_cols} \cap data.demo_columns
HasAlert(alerts, alert) == \E k \in DOMAIN alerts : alerts[k] = alert

\* C16 (as stated): with a target column and at least one declared grouping
\* column in the batch, the bias monitor evaluates each declared column that
\* is present, so the report holds the alert of every such column over the
\* disparity limit; with no target or no declared column present there is no
\* BIAS_DRIFT alert, and the step does not raise.
C16_BiasRunsOnPresentColumns ==
    (outcome # "none" /\ BiasDone) =>
        IF data.has_target /\ DeclaredPresent # {}
        THEN \A c \in DeclaredPresent :
                 LET expected == BiasAlerts(data, c, report.timestamp)
                 IN  \A j \in DOMAIN expected : HasAlert(report.alerts, expected[j])
        ELSE \A k \in DOMAIN report.alerts : report.alerts[k].category # "BIAS_DRIFT"

REq(a, b) == RGE(a, b) /\ RGE(b, a)
\* the columns _check_bias_drift evaluates in the call
EvaluatedCols ==
    IF call.data.has_target
    THEN {call.demographic_cols[i] : i \in DOMAIN call.demographic_cols}
             \cap call.data.demo_columns
    ELSE {}
GroupsOf(c) == {call.data.groups[c][i] : i \in DOMAIN call.data.groups[c]}
GroupMSE(c, g) == SubgroupMSE(call.data, call.data.groups[c], g)
\* max subgroup RMSE - min subgroup RMSE > subgroup_rmse_disparity_max: some
\* two subgroups are that far apart
OverDisparity(c) ==
    \E g \in GroupsOf(c), h \in GroupsOf(c) :
        ValGT(RootDiff(GroupMSE(c, g), GroupMSE(c, h)), R(subgroup_rmse_disparity_max))
BiasAlertOk(c, alert) ==
    LET worst == alert.metadata.worst_group
        best == alert.metadata.best_group
    IN  /\ alert.severity = "WARNING" /\ alert.category = "BIAS_DRIFT"
        /\ worst \in GroupsOf(c) /\ best \in GroupsOf(c)
        /\ \A g \in GroupsOf(c) :
               RGE(GroupMSE(c, worst), GroupMSE(c, g)) /\ RGE(GroupMSE(c, g), GroupMSE(c, best))
        /\ alert.value.root
        /\ REq(alert.value.hi, GroupMSE(c, worst))
        /\ REq(alert.value.lo, GroupMSE(c, best))

\* C17: for each grouping column it evaluates, _check_bias_drift emits one
\* WARNING BIAS_DRIFT alert if max subgroup RMSE - min subgroup RMSE is
\* strictly above subgroup_rmse_disparity_max and none otherwise; the alert's
\* value is that disparity, worst_group a subgroup of maximal RMSE and
\* best_group one of minimal RMSE; a column not evaluated gets no alert.
C17_OneBiasAlertPerColumnOverLimit ==
    call.done =>
        /\ ~call.ret.raised
        /\ \A c \in DemoSet :
               LET of_c == AlertsWith(call.ret.alerts, "subgroup_disparity_" \o c)
               IN  IF c \in EvaluatedCols /\ OverDisparity(c)
                   THEN /\ Cardinality(of_c) = 1
                        /\ \A i \in of_c : BiasAlertOk(c, call.ret.alerts[i])
                   ELSE of_c = {}
        /\ \A i \in DOMAIN call.ret.alerts : call.ret.alerts[i].category = "BIAS_DRIFT"

\* subgroup RMSEs 4.0 and 7.5 against the limit 2: one alert, disparity 3.5,
\* worst group 2 and best group 1
C17_Witness ==
    /\ call.done
    /\ Len(call.ret.alerts) = 1
    /\ LET alert == call.ret.alerts[1]
       IN  /\ REq(alert.value.hi, Rat(225, 4)) /\ REq(alert.value.lo, R(16))
           /\ ValGE(alert.value, Rat(7, 2)) /\ ValLE(alert.value, Rat(7, 2))
           /\ alert.metadata.worst_group = 2 /\ alert.metadata.best_group = 1

\* rows of the batch whose glucose_raw is below 40 or above 400
OutOfRangeRows ==
    {i \in DOMAIN call.data.glucose_raw :
        /\ ~call.data.glucose_raw[i].nan
        /\ call.data.glucose_raw[i].v < 40 \/ call.data.glucose_raw[i].v > 400}

\* C18: when at least one row has glucose_raw < 40 or > 400,
\* _check_data_quality emits exactly one CRITICAL DATA_QUALITY alert with
\* metric sensor_range_violations whose value is the number of such rows;
\* with no such row (readings of exactly 40 or 400 included) it emits none.
C18_RangeCheckZeroTolerance ==
    (call.done /\ ~call.ret.raised) =>
        LET range_alerts == AlertsWith(call.ret.alerts, "sensor_range_violations")
        IN  IF OutOfRangeRows # {}
            THEN /\ Cardinality(range_alerts) = 1
                 /\ \A i \in range_alerts :
                        /\ call.ret.alerts[i].severity = "CRITICAL"
                        /\ call.ret.alerts[i].category = "DATA_QUALITY"
                        /\ call.ret.alerts[i].value = Plain(R(Cardinality(OutOfRangeRows)))
            ELSE range_alerts = {}

\* readings 39, 40, 400 and 401: one alert, of value 2
C18_Witness ==
    /\ call.done
    /\ call.data.glucose_raw = <<Num(39), Num(40), Num(400), Num(401)>>
    /\ \E i \in AlertsWith(call.ret.alerts, "sensor_range_violations") :
           call.ret.alerts[i].value = Plain(R(2))

\* null cells in the feature columns, and rows x feature columns
NullCount ==
    LET d == call.data
    IN  Cardinality({i \in DOMAIN d.glucose_raw : d.glucose_raw[i].nan})
            + (d.n - d.nonnull["velocity"])
CellCount == call.data.n * Cardinality(FeatureSet)
\* NullCount / CellCount > missing_rate_max
OverMissingRate ==
    /\ CellCount > 0
    /\ NullCount * missing_rate_max.den > missing_rate_max.num * CellCount

\* C19: _check_data_quality emits exactly one WARNING DATA_QUALITY alert with
\* metric missing_rate if (null cells in feature columns) / (rows x feature
\* columns) is strictly above missing_rate_max, and none otherwise.
C19_MissingRateStrictlyOverLimit ==
    (call.done /\ ~call.ret.raised) =>
        LET missing_alerts == AlertsWith(call.ret.alerts, "missing_rate")
        IN  IF OverMissingRate
            THEN /\ Cardinality(missing_alerts) = 1
                 /\ \A i \in missing_alerts :
                        /\ call.ret.alerts[i].severity = "WARNING"
                        /\ call.ret.alerts[i].category = "DATA_QUALITY"
            ELSE missing_alerts = {}

\* 4 null cells in 5 rows x 8 columns, 10% against the 5% limit: one alert
C19_Witness ==
    /\ call.done
    /\ call.data.n = 5
    /\ NullCount = 4 /\ CellCount = 40
    /\ Cardinality(AlertsWith(call.ret.alerts, "missing_rate")) = 1

\* the feature is in the batch and in the reference data, with at least 30
\* non-null observations in the batch
Tested(f) ==
    /\ f \in call.data.columns
    /\ f \in call.ref_columns
    /\ call.data.nonnull[f] >= 30
KsShift(f) == RGT(ks_test_alpha, call.data.ks[f].pval)
PsiShift(f) == RGT(call.data.psi[f], psi_warning)

\* C20: _check_statistical_drift returns no alert for a feature that is
\* absent from the batch or from the reference data, or that has fewer than
\* 30 non-null observations in the batch; a feature in both with at least 30
\* gets the KS test and the PSI test, each giving its alert when it finds a
\* shift.
C20_DriftSkipsAndTests ==
    call.done =>
        \A f \in FeatureSet :
            LET ks_alerts == AlertsWith(call.ret, "ks_test_" \o f)
                psi_alerts == AlertsWith(call.ret, "psi_" \o f)
            IN  IF Tested(f)
                THEN /\ Cardinality(ks_alerts) = IF KsShift(f) THEN 1 ELSE 0
                     /\ Cardinality(psi_alerts) = IF PsiShift(f) THEN 1 ELSE 0
                ELSE ks_alerts = {} /\ psi_alerts = {}

\* three shifted features are skipped, one for each reason, and the other
\* five get both alerts
C20_Witness ==
    /\ call.done
    /\ \A f \in FeatureSet : KsShift(f) /\ PsiShift(f)
    /\ "glucose_raw" \notin call.data.columns
    /\ "velocity" \in call.data.columns /\ "velocity" \notin call.ref_columns
    /\ Tested("lag_30m") /\ ~Tested("lag_60m") /\ call.data.nonnull["lag_60m"] = 29
    /\ "lag_60m" \in call.data.columns /\ "lag_60m" \in call.ref_columns
    /\ Len(call.ret) = 10

\* C21: for each tested feature _check_statistical_drift emits a KS alert if
\* and only if the p-value is strictly below ks_test_alpha, and never more
\* than one; the alert is CRITICAL when the p-value is below 0.001 and WARNING
\* otherwise, and carries the KS statistic as value.
C21_KsAlertBelowAlpha ==
    call.done =>
        \A f \in FeatureSet :
            LET ks_alerts == AlertsWith(call.ret, "ks_test_" \o f)
                pval == call.data.ks[f].pval
            IN  Tested(f) =>
                    /\ Cardinality(ks_alerts) = IF RGT(ks_test_alpha, pval) THEN 1 ELSE 0
                    /\ \A i \in ks_alerts :
                           /\ call.ret[i].severity =
                                  IF RGT(Rat(1, 1000), pval) THEN "CRITICAL" ELSE "WARNING"
                           /\ call.ret[i].category = "STATISTICAL_DRIFT"
                           /\ call.ret[i].value = Plain(call.data.ks[f].stat)

\* a p-value of exactly 0.01 gives no alert, and one of exactly 0.001 a WARNING
C21_Witness ==
    /\ call.done
    /\ call.data.ks["glucose_raw"].pval = Rat(1, 100)
    /\ call.data.ks["velocity"].pval = Rat(1, 1000)
    /\ Tested("glucose_raw") /\ Tested("velocity")
    /\ AlertsWith(call.ret, "ks_test_glucose_raw") = {}
    /\ Severities(call.ret, "ks_test_velocity") = {"WARNING"}

\* the severity of the PSI alert the thresholds call for, none when empty
PsiLevel(psi) ==
    IF RGT(psi, psi_critical) THEN {"CRITICAL"}
    ELSE IF RGT(psi, psi_warning) THEN {"WARNING"}
    ELSE {}
AlertLevels == {{}, {"WARNING"}, {"CRITICAL"}}
\* what _check_statistical_drift returns when both tested features have the
\* p-value pval and the PSI psi
TestsResult(pval, psi) ==
    _check_statistical_drift(TestsBatch([f \in TestedFeatures |-> [pval |-> pval, psi |-> psi]]),
                             FeatureSet, 1)

\* C22: for each tested feature _check_statistical_drift emits one CRITICAL
\* psi alert when PSI > psi_critical, else one WARNING psi alert when
\* PSI > psi_warning, else none, whatever the KS test found; a feature has at
\* most one KS alert and at most one PSI alert, and each of the nine pairs of
\* a KS outcome and a PSI outcome (none, WARNING, CRITICAL) is produced by
\* some p-value and PSI.
C22_PsiAlertsIndependentOfKs ==
    /\ call.done =>
           \A f \in FeatureSet :
               LET ks_alerts == AlertsWith(call.ret, "ks_test_" \o f)
                   psi_alerts == AlertsWith(call.ret, "psi_" \o f)
               IN  Tested(f) =>
                       /\ Cardinality(ks_alerts) <= 1
                       /\ Cardinality(psi_alerts) = Cardinality(PsiLevel(call.data.psi[f]))
                       /\ Severities(call.ret, "psi_" \o f) = PsiLevel(call.data.psi[f])
                       /\ \A i \in psi_alerts :
                              /\ call.ret[i].category = "STATISTICAL_DRIFT"
                              /\ call.ret[i].value = Plain(call.data.psi[f])
    /\ \A ks_level \in AlertLevels, psi_level \in AlertLevels :
           \E pval \in KsPvals, psi \in PsiValues :
               LET alerts == TestsResult(pval, psi)
               IN  /\ Severities(alerts, "ks_test_glucose_raw") = ks_level
                   /\ Severities(alerts, "psi_glucose_raw") = psi_level

\* one feature has a CRITICAL KS alert and a WARNING PSI alert, the other a
\* CRITICAL PSI alert and no KS alert
C22_Witness ==
    /\ call.done
    /\ Tested("glucose_raw") /\ Tested("velocity")
    /\ Severities(call.ret, "ks_test_glucose_raw") = {"CRITICAL"}
    /\ Severities(call.ret, "psi_glucose_raw") = {"WARNING"}
    /\ AlertsWith(call.ret, "ks_test_velocity") = {}
    /\ Severities(call.ret, "psi_velocity") = {"CRITICAL"}
    /\ Len(call.ret) = 3

\* the share of the sample's values that fall in bin k of the reference's
\* binning is the same for the reference and the new sample, in every bin
SameProportions ==
    LET lo == SeqMin(call.reference)
        hi == SeqMax(call.reference)
        ref_counts == BinCounts(call.reference, lo, hi, psi_bins)
        cur_counts == BinCounts(call.current, lo, hi, psi_bins)
    IN  \A k \in 1..psi_bins :
            ref_counts[k] * Len(call.current) = cur_counts[k] * Len(call.reference)
\* every term of the returned sum is >= 0, so the sum is; and every term is 0
\* when the proportions are the same
PsiNonNegative ==
    /\ \A k \in DOMAIN call.ret.terms :
           /\ call.ret.terms[k].ratio.num > 0 /\ call.ret.terms[k].ratio.den > 0
           /\ TermSgn(call.ret.terms[k]) >= 0
    /\ SameProportions => \A k \in DOMAIN call.ret.terms : TermSgn(call.ret.terms[k]) = 0
\* what holds of the calls that return
PsiNonNegativeWhenReturned == (call.done /\ ~call.ret.raised) => PsiNonNegative
PsiZeroReturned ==
    /\ call.done /\ ~call.ret.raised
    /\ SameProportions /\ Len(call.reference) # Len(call.current)
PsiFloorReturned ==
    /\ call.done /\ ~call.ret.raised
    /\ \E k \in DOMAIN call.ret.terms :
           call.ret.terms[k].ratio = Rat(10000, 2) /\ TermSgn(call.ret.terms[k]) = 1

\* C23 (as stated): for every pair of a reference sample and a new sample,
\* _calculate_psi returns a value that is >= 0, each bin's term
\* (new_pct - ref_pct) * ln(new_pct / ref_pct) being >= 0 also with the 0.0001
\* floor, and returns 0 when the two samples have the same per-bin proportions.
C23_PsiNonNegativeForEveryPair ==
    call.done => ~call.ret.raised /\ PsiNonNegative

\* the alerts the direct call returned
ReturnedAlerts == IF call.fn = "_check_performance" THEN call.ret.alerts ELSE call.ret
PsiMetrics == {"psi_" \o f : f \in FeatureSet}
\* the alert's severity, threshold and value agree, for the limits given
GradedBy(alert, warning, critical) ==
    /\ alert.severity \in {"WARNING", "CRITICAL"}
    /\ alert.severity = "CRITICAL" =>
           alert.threshold = critical /\ ValGT(alert.value, critical)
    /\ alert.severity = "WARNING" =>
           /\ alert.threshold = warning
           /\ ValGT(alert.value, warning)
           /\ ~ValGT(alert.value, critical)

\* C24: every rmse alert and every psi alert is graded consistently: a
\* CRITICAL one records the critical limit (rmse_critical, psi_critical) as
\* threshold and its value is above that limit; a WARNING one records the
\* warning limit (rmse_warning, psi_warning) and its value is above the
\* warning limit and not above the critical limit.
C24_SeverityMatchesThreshold ==
    call.done =>
        \A i \in DOMAIN ReturnedAlerts :
            LET alert == ReturnedAlerts[i]
            IN  /\ alert.metric = "rmse" =>
                       GradedBy(alert, R(rmse_warning), R(rmse_critical))
                /\ alert.metric \in PsiMetrics =>
                       GradedBy(alert, psi_warning, psi_critical)

\* a PSI of exactly psi_critical is a WARNING against psi_warning, beside a
\* CRITICAL alert against psi_critical
C24_Witness ==
    /\ call.done
    /\ call.fn = "_check_statistical_drift"
    /\ \E i \in AlertsWith(call.ret, "psi_glucose_raw") :
           /\ call.ret[i].value = Plain(psi_critical)
           /\ call.ret[i].severity = "WARNING"
           /\ call.ret[i].threshold = psi_warning
    /\ \E i \in AlertsWith(call.ret, "psi_velocity") :
           /\ call.ret[i].severity = "CRITICAL"
           /\ call.ret[i].threshold = psi_critical

\* C25: the alert list of a cycle holds at most one alert with metric rmse
\* (an RMSE above rmse_critical gives the CRITICAL alert alone, not a WARNING
\* one beside it) and at most one with metric clarke_ab_percentage.
C25_OneRmseAlertOneClarkeAlert ==
    /\ Cardinality(AlertsWith(report.alerts, "rmse")) <= 1
    /\ Cardinality(AlertsWith(report.alerts, "clarke_ab_percentage")) <= 1
    /\ (PerformanceDone /\ "performance" \in DOMAIN report.metrics
            /\ "rmse" \in DOMAIN report.metrics.performance
            /\ ValGT(report.metrics.performance.rmse, R(rmse_critical)))
           => Severities(report.alerts, "rmse") = {"CRITICAL"}

\* a returned report whose RMSE is above both limits, with its one rmse alert
\* and its one Clarke alert
C25_Witness ==
    /\ outcome = "returned"
    /\ ValGT(report.metrics.performance.rmse, R(rmse_critical))
    /\ ValGT(report.metrics.performance.rmse, R(rmse_warning))
    /\ Cardinality(AlertsWith(report.alerts, "rmse")) = 1
    /\ Cardinality(AlertsWith(report.alerts, "clarke_ab_percentage")) = 1

ZoneCall == call.done /\ call.fn = "_clarke_zone"
BatchCall ==
    call.done /\ call.fn = "_check_performance" /\ "clarke" \in DOMAIN call.ret.metrics
\* rows of the batch that meet a Zone D condition
RuleDRows ==
    {i \in DOMAIN call.data.y_true : RuleD(call.data.y_true[i], call.data.y_pred[i])}

\* C26: _clarke_zone never returns 'D': a pair that meets a Zone D condition
\* meets the Zone E rule tested before it and gets 'E'; so the zone D count
\* and zone_d_pct of every computed Clarke metrics are 0.
C26_ZoneDUnreachable ==
    /\ ZoneCall =>
           /\ call.ret # "D"
           /\ RuleD(call.true_glucose, call.pred_glucose) =>
                  /\ RuleE(call.true_glucose, call.pred_glucose)
                  /\ call.ret = "E"
    /\ BatchCall =>
           /\ call.ret.metrics.clarke.zone_counts["D"] = 0
           /\ call.ret.metrics.clarke.zone_d_pct.num = 0
           /\ call.ret.metrics.clarke.zone_counts["E"] >= Cardinality(RuleDRows)

\* a batch with a row for each Zone D condition (true 60 predicted 200, true
\* 250 predicted 60): both are counted in Zone E
C26_Witness ==
    /\ BatchCall
    /\ call.data.y_true = <<Num(60), Num(250)>>
    /\ call.data.y_pred = <<Num(200), Num(60)>>
    /\ Cardinality(RuleDRows) = 2
    /\ call.ret.metrics.clarke.zone_counts["E"] = 2
    /\ call.ret.metrics.clarke.zone_counts["D"] = 0

\* rows of the batch with a missing true or predicted value, and the other
\* rows that are in Zone A or B
MissingRows ==
    {i \in DOMAIN call.data.y_true : call.data.y_true[i].nan \/ call.data.y_pred[i].nan}
CompleteRows == DOMAIN call.data.y_true \ MissingRows
CompleteABRows ==
    {i \in CompleteRows :
        _clarke_zone(call.data.y_true[i], call.data.y_pred[i]) \in {"A", "B"}}

\* C30: _clarke_zone puts a pair with a missing (NaN) true or predicted value
\* in Zone B; in a batch these rows are counted in Zone B, so in Zone A+B, and
\* they do not bring the A+B percentage below clarke_ab_min: when the
\* complete rows alone have A+B >= clarke_ab_min (or there is none), there is
\* no clarke_ab_percentage alert.
C30_MissingPairIsZoneB ==
    /\ (ZoneCall /\ (call.true_glucose.nan \/ call.pred_glucose.nan)) => call.ret = "B"
    /\ BatchCall =>
           LET zones == call.ret.metrics.clarke.zone_counts
           IN  /\ zones["B"] >= Cardinality(MissingRows)
               /\ zones["A"] + zones["B"]
                      = Cardinality(MissingRows) + Cardinality(CompleteABRows)
               /\ Cardinality(CompleteABRows) * 100
                      >= clarke_ab_min * Cardinality(CompleteRows)
                  => AlertsWith(call.ret.alerts, "clarke_ab_percentage") = {}

\* three rows, missing on one side, the other and both: all three in Zone B,
\* Zone A+B is 100% and there is no alert
C30_Witness ==
    /\ BatchCall
    /\ call.data.y_true = <<NaN, Num(100), NaN>>
    /\ call.data.y_pred = <<Num(100), NaN, NaN>>
    /\ call.ret.metrics.clarke.zone_counts["B"] = 3
    /\ call.ret.metrics.clarke.zone_b_pct = Rat(300, 3)
    /\ call.ret.alerts = <<>>

\* the last check_drift call raised
Raised == outcome \notin {"none", "running", "returned"}
\* a cycle that raised before the decision left the ledger as it was
LedgerUnchangedByEarlyFailure ==
    outcome \in {"KeyError", "TypeError", "PredictError", "ZeroDivisionError"} =>
        alert_history = EarlierAlerts(now)

\* C27 (as stated): whenever check_drift has raised, at whatever step (the
\* summary and the logging of the report included), the ledger holds exactly
\* what it held before the call.
C27_FailedCycleLeavesLedgerUnchanged ==
    Raised => alert_history = EarlierAlerts(now)

\* the list with alert put in after its first k alerts
InsertAt(alerts, k, alert) ==
    SubSeq(alerts, 1, k) \o <<alert>> \o SubSeq(alerts, k + 1, Len(alerts))

\* C28: when _evaluate_retraining_need returns true for a list of alerts, it
\* returns true for the list with one more alert, whatever the alert and
\* wherever it is put; so, one alert after another, for every list obtained
\* by adding alerts.
C28_VerdictMonotone ==
    (call.done /\ call.ret) =>
        \A alert \in EvalAlerts, k \in 0..Len(call.alerts) :
            _evaluate_retraining_need(InsertAt(call.alerts, k, alert))

\* true by the count of three CRITICAL alerts alone, with a benign alert in
\* the list: a fourth CRITICAL alert or more benign ones keep it true
C28_Witness ==
    /\ call.done /\ call.ret
    /\ Len(call.alerts) = 4
    /\ ~HasCriticalRmse(call.alerts) /\ ~HasLowClarke(call.alerts)
    /\ Count(call.alerts, "CRITICAL") = 3
    /\ Count(call.alerts, "INFO") = 1

OnlyWarningOrCritical(alerts) ==
    \A i \in DOMAIN alerts : alerts[i].severity \in {"WARNING", "CRITICAL"}
PmcfWritten == call.fn = "generate_pmcf_report" /\ ~call.ret.raised

\* C29: every alert of a report and of the ledger has severity WARNING or
\* CRITICAL, none INFO or RETRAINING_REQUIRED; so every PMCF report counts 0
\* retraining events, also after cycles whose retraining_required was true.
C29_NoRetrainingSeverity ==
    /\ OnlyWarningOrCritical(report.alerts)
    /\ OnlyWarningOrCritical(alert_history)
    /\ PmcfWritten =>
           /\ call.ret.retraining = 0
           /\ call.ret.critical + call.ret.warning = call.ret.total

\* a PMCF report over the whole ledger, written after a cycle that returned
\* retraining_required true: alerts are counted, retraining events are not
C29_Witness ==
    /\ PmcfWritten
    /\ pc = "idle" /\ outcome = "returned"
    /\ report.retraining_required
    /\ call.start_date = 0 /\ call.end_date = 0
    /\ call.ret.total = Len(alert_history)
    /\ call.ret.total > 0
    /\ call.ret.retraining = 0

=============================================================================
